---- MODULE Spec2Model ----
(***************************************************************************)
(* A model of node-netbios-session: the frame header codec, the chunking   *)
(* writer of the stream version (src/session.js) and the two-peer session  *)
(* protocol of the event-emitter version (src/unnamed/part_004, lines      *)
(* 1-599).                                                                 *)
(***************************************************************************)
EXTENDS Integers, Sequences, FiniteSets, TLC

VARIABLES
  codec,      \* the header codec under test: inputs, packed bytes, decoded result
  sw,         \* the stream version's _write/_writeChunk run and its transport
  sr,         \* the stream version's reading session at the other end of it
  mode,       \* ss.mode of each session ("null" for null)
  socket,     \* ss.socket of each session: "null" or "open"
  opts,       \* the constructor options of each session: direct, autoAccept
  paused,     \* ss.paused
  attachCallback,   \* ss.attachCallback: "null" or "fn"
  connectCallback,  \* ss.connectCallback: "null" or "fn"
  trailerType,      \* ss.trailerType
  trailerLength,    \* ss.trailerLength
  readFunc,         \* ss.readFunc: "readHeader" or "readTrailer"
  needDrain,        \* ss.needDrain
  inputStream,      \* whether ss.inputStream was created
  inbuf,      \* bytes buffered in ss.inputStream
  wire,       \* bytes written by the peer and not yet arrived at the session
  tickq,      \* the process.nextTick queue of the session's process
  readableL,  \* number of once('readable') listeners holding a _doRead
  sockFull,   \* the transport reported "not flushed" and owes a 'drain'
  sockEnded,  \* how many times the session called end() on a transport
  connq,      \* sockets created by connect() whose ready callback is pending
  drainL,     \* the once('drain') listeners registered on the transport
  requests,   \* request objects handed to the attach callback and kept by it
  log,        \* what the application observed: events and callback calls
  out,        \* every byte the session handed to its transport, in order
  app,        \* what the application did so far (counters of its calls)
  last        \* the event-loop turn that ran last, where a specification
              \* with fairness records it

codecVars == <<codec>>
streamVars == <<sw, sr>>
turnVars == <<last>>
sessVars == <<mode, socket, opts, paused, attachCallback, connectCallback,
              trailerType, trailerLength, readFunc, needDrain, inputStream,
              inbuf, wire, tickq, readableL, sockFull, sockEnded, connq,
              drainL, requests, log, out, app>>
vars == <<codec, sw, sr, mode, socket, opts, paused, attachCallback,
          connectCallback, trailerType, trailerLength, readFunc, needDrain,
          inputStream, inbuf, wire, tickq, readableL, sockFull, sockEnded,
          connq, drainL, requests, log, out, app, last>>

----------------------------------------------------------------------------
(* Protocol constants (part_004, lines 37-86).                             *)

TypeStrings == {"message", "request", "positive response",
                "negative response", "retarget response", "keep alive"}

TYPE_FROM_STRING(typeString) ==
  CASE typeString = "message" -> 0
    [] typeString = "request" -> 129
    [] typeString = "positive response" -> 130
    [] typeString = "negative response" -> 131
    [] typeString = "retarget response" -> 132
    [] typeString = "keep alive" -> 133

\* TYPE_TO_STRING[t]; "undefined" for a code that is no key of the table
TYPE_TO_STRING(t) ==
  CASE t = 0 -> "message"
    [] t = 129 -> "request"
    [] t = 130 -> "positive response"
    [] t = 131 -> "negative response"
    [] t = 132 -> "retarget response"
    [] t = 133 -> "keep alive"
    [] OTHER -> "undefined"

FLAGS_E_MASK == 128
EXTENSION_LENGTH == 65536
MAX_TRAILER_LENGTH == 131071
HEADER_LENGTH == 4

ReasonStrings == {"Not listening on called name",
                  "Not listening for calling name",
                  "Called name not present",
                  "Called name present, but insufficient resources",
                  "Unspecified error"}

\* ERROR_CODE_FROM_STRING[s]; 0 stands for undefined (no such key)
ERROR_CODE_FROM_STRING(s) ==
  CASE s = "Not listening on called name" -> 128
    [] s = "Not listening for calling name" -> 129
    [] s = "Called name not present" -> 130
    [] s = "Called name present, but insufficient resources" -> 131
    [] s = "Unspecified error" -> 143
    [] OTHER -> 0

\* ERROR_CODE_TO_STRING[c]; "undefined" for a code that is no key of the table
\* a decoding table with the strings of 0x80 and 0x82 exchanged, and those
\* of 0x81 and 0x83
ERROR_CODE_TO_STRING_Exchanged(c) ==
  CASE c = 130 -> "Not listening on called name"
    [] c = 131 -> "Not listening for calling name"
    [] c = 128 -> "Called name not present"
    [] c = 129 -> "Called name present, but insufficient resources"
    [] c = 143 -> "Unspecified error"
    [] OTHER -> "undefined"

ERROR_CODE_TO_STRING(c) ==
  CASE c = 128 -> "Not listening on called name"
    [] c = 129 -> "Not listening for calling name"
    [] c = 130 -> "Called name not present"
    [] c = 131 -> "Called name present, but insufficient resources"
    [] c = 143 -> "Unspecified error"
    [] OTHER -> "undefined"

\* VALID_TYPES[mode][type], for a mode that is a key of the table
VALID_TYPES(m, type) ==
  \/ m = "establishingIn" /\ type = "request"
  \/ m = "establishingOut" /\ type \in {"positive response", "negative response"}
  \/ m = "established" /\ type \in {"message", "keep alive"}

----------------------------------------------------------------------------
(* The header codec.                                                       *)

\* buf.writeUInt16BE(v): the two bytes of a 16-bit value, high byte first
writeUInt16BE(v) == <<(v \div 256) % 256, v % 256>>

\* buf.readUInt16BE: the value of two bytes, high byte first
readUInt16BE(hi, lo) == hi * 256 + lo

\* a _packHeader that tests the extension with > instead of >=
packHeaderStrict(typeString, length) ==
  LET ext == length > EXTENSION_LENGTH
      flags == IF ext THEN FLAGS_E_MASK ELSE 0
      field == IF ext THEN length - EXTENSION_LENGTH ELSE length
  IN <<TYPE_FROM_STRING(typeString), flags>> \o writeUInt16BE(field)

\* _packHeader(buf, 0, typeString, length): the 4 header bytes
packHeader(typeString, length) ==
  LET ext == length >= EXTENSION_LENGTH
      flags == IF ext THEN FLAGS_E_MASK ELSE 0
      field == IF ext THEN length - EXTENSION_LENGTH ELSE length
  IN <<TYPE_FROM_STRING(typeString), flags>> \o writeUInt16BE(field)

\* the type string _readHeader looks up from byte 0
headerType(chunk) == TYPE_TO_STRING(chunk[1])

\* the trailer length _readHeader computes from the flags and length bytes
headerLength(chunk) ==
  LET length == readUInt16BE(chunk[3], chunk[4])
  IN IF (chunk[2] \div FLAGS_E_MASK) % 2 = 1
     THEN length + EXTENSION_LENGTH
     ELSE length

\* how far around each boundary of the length field the lengths are drawn
LenWindow == 3

LenSamples ==
  (0 .. LenWindow)
  \cup ((256 - LenWindow) .. (256 + LenWindow))
  \cup ((EXTENSION_LENGTH - LenWindow) .. (EXTENSION_LENGTH + LenWindow))
  \cup ((MAX_TRAILER_LENGTH - LenWindow) .. MAX_TRAILER_LENGTH)

CodecIdle == [pc |-> "idle", type |-> "message", length |-> 0,
              buf |-> <<>>, dtype |-> "undefined", dlength |-> 0]

CodecInit ==
  codec \in {[pc |-> "start", type |-> t, length |-> n, buf |-> <<>>,
              dtype |-> "undefined", dlength |-> 0] :
             t \in TypeStrings, n \in LenSamples}

CodecPack ==
  /\ codec.pc = "start"
  /\ codec' = [codec EXCEPT !.pc = "packed",
                            !.buf = packHeader(codec.type, codec.length)]

CodecRead ==
  /\ codec.pc = "packed"
  /\ codec' = [codec EXCEPT !.pc = "read",
                            !.dtype = headerType(codec.buf),
                            !.dlength = headerLength(codec.buf)]

----------------------------------------------------------------------------
(* The stream version's writer: _write, _writeChunk and _writeFlow of      *)
(* src/session.js.  A payload is too long to enumerate byte by byte, so a  *)
(* chunk is its length and chunk.slice(lo, hi) is the pair of its ends.    *)
(* sw.sock is what the transport was given, in order: a header item holds  *)
(* the 4 header bytes, a slice item the ends of the slice.                 *)

Min(a, b) == IF a < b THEN a ELSE b

\* the greatest number of maximum-length frames a written chunk needs
MaxChunks == 3

\* how far around each multiple of the maximum the chunk lengths are drawn
ChunkWindow == 2

StreamLens ==
  {n \in 0 .. (MaxChunks * MAX_TRAILER_LENGTH + ChunkWindow) :
     \E k \in 0 .. MaxChunks :
        /\ n >= k * MAX_TRAILER_LENGTH - ChunkWindow
        /\ n <= k * MAX_TRAILER_LENGTH + ChunkWindow}

\* how many writes of one synchronous run the transport may report flushed
SwCredits == 0 .. (2 * MaxChunks + 2)

SwIdle == [pc |-> "off", len |-> 0, sock |-> <<>>, full |-> FALSE,
           drainL |-> [k |-> "none", offset |-> 0, msgLength |-> 0],
           cbCalls |-> 0, drains |-> 0]

NoListener == [k |-> "none", offset |-> 0, msgLength |-> 0]

HeaderItem(bytes) == [hdr |-> bytes, lo |-> 0, hi |-> 0]

\* chunk.slice(lo, hi) of a chunk of len bytes: Buffer.slice clips to the buffer
SliceItem(len, lo, hi) == [hdr |-> <<>>, lo |-> Min(lo, len), hi |-> Min(hi, len)]

\* a latch that forgets the offset: Math.min(chunk.length, MAX_TRAILER_LENGTH)
swMsgLengthNoOffset(len, offset) == Min(len, MAX_TRAILER_LENGTH)

\* "latch length of this message to maximum allowed by protocol header"
swMsgLength(len, offset) == Min(len - offset, MAX_TRAILER_LENGTH)

RECURSIVE writeChunk(_, _, _)
RECURSIVE writeTrailer(_, _, _, _)

\* a trailer write that calls the completion callback right after the last
\* stream.write, whatever that returned
writeTrailerEager(st, offset, msgLength, credit) ==
  LET end == offset + msgLength
      st1 == [st EXCEPT !.sock = Append(@, SliceItem(st.len, offset, end))]
      hook == IF end < st.len THEN "writeChunk" ELSE "callback"
  IN IF hook = "callback"
     THEN [st1 EXCEPT !.full = (credit = 0), !.cbCalls = @ + 1, !.pc = "done"]
     ELSE IF credit = 0
          THEN [st1 EXCEPT !.full = TRUE,
                           !.drainL = [k |-> hook, offset |-> end, msgLength |-> 0]]
          ELSE writeChunk(st1, end, credit - 1)

\* the callback _writeChunk gives to the header's _writeFlow: write the
\* trailer, then go on with the next part of the chunk or call the callback
writeTrailer(st, offset, msgLength, credit) ==
  LET end == offset + msgLength
      st1 == [st EXCEPT !.sock = Append(@, SliceItem(st.len, offset, end))]
      hook == IF end < st.len THEN "writeChunk" ELSE "callback"
  IN IF credit = 0
     THEN [st1 EXCEPT !.full = TRUE,
                      !.drainL = [k |-> hook, offset |-> end, msgLength |-> 0]]
     ELSE IF hook = "callback"
          THEN [st1 EXCEPT !.cbCalls = @ + 1, !.pc = "done"]
          ELSE writeChunk(st1, end, credit - 1)

\* _writeChunk(chunk, offset, callback)
writeChunk(st, offset, credit) ==
  LET msgLength == swMsgLength(st.len, offset)
      st1 == [st EXCEPT !.sock = Append(@, HeaderItem(packHeader("message", msgLength)))]
  IN IF credit = 0
     THEN [st1 EXCEPT !.full = TRUE,
                      !.drainL = [k |-> "trailer", offset |-> offset,
                                  msgLength |-> msgLength]]
     ELSE writeTrailer(st1, offset, msgLength, credit - 1)

SwInit ==
  sw \in {[SwIdle EXCEPT !.pc = "idle", !.len = n] : n \in StreamLens}

\* _write(chunk, callback): this._writeChunk(chunk, 0, callback)
SwWrite ==
  /\ sw.pc = "idle"
  /\ \E credit \in SwCredits :
       sw' = writeChunk([sw EXCEPT !.pc = "writing"], 0, credit)

\* the transport emits 'drain': the once('drain') listener of _writeFlow runs
SwDrain ==
  /\ sw.full
  /\ \E credit \in SwCredits :
       LET l == sw.drainL
           st == [sw EXCEPT !.full = FALSE, !.drainL = NoListener,
                            !.drains = @ + 1]
       IN sw' = CASE l.k = "trailer" -> writeTrailer(st, l.offset, l.msgLength, credit)
                  [] l.k = "writeChunk" -> writeChunk(st, l.offset, credit)
                  [] l.k = "callback" -> [st EXCEPT !.cbCalls = @ + 1, !.pc = "done"]
                  [] OTHER -> st

----------------------------------------------------------------------------
(* The stream version's reader: attach, _read, _doRead, _readHeader,       *)
(* _readTrailer, _handleRequest and _handleMessage of src/session.js, in   *)
(* the session at the other end of the writer's transport.  The bytes on   *)
(* their way to it are the call request followed by what the writer gave   *)
(* its transport (sw.sock); the reader's input stream holds a number of    *)
(* bytes, and inputStream.read(n) succeeds when it holds n.                *)

\* how many bytes arrive at once when not all that is in flight arrives
DeliverUnit == 2

SrIdle == [mode |-> "null", readFunc |-> "readHeader", trailerType |-> "null",
           trailerLength |-> 0, readCallback |-> FALSE, listeners |-> 0,
           item |-> 1, buffered |-> 0, arrived |-> 0, got |-> <<>>,
           dropped |-> <<>>, out |-> <<>>, ex |-> FALSE, reads |-> 0]

\* the call request the connecting end writes first: a header and a trailer
\* of two one-byte name records
SrRequest == <<HeaderItem(packHeader("request", 2)), SliceItem(2, 0, 2)>>

\* everything written towards the reader so far, in order
SrStream == SrRequest \o sw.sock

ItemSize(it) == IF it.hdr # <<>> THEN HEADER_LENGTH ELSE it.hi - it.lo

\* the number of bytes of the first n items
RECURSIVE SizeUpTo(_, _)
SizeUpTo(items, n) ==
  IF n = 0 THEN 0 ELSE SizeUpTo(items, n - 1) + ItemSize(items[n])

\* the first item at or after i that holds bytes or is a header
RECURSIVE SrNonEmpty(_)
SrNonEmpty(i) ==
  IF i <= Len(SrStream) /\ SrStream[i].hdr = <<>> /\ ItemSize(SrStream[i]) = 0
  THEN SrNonEmpty(i + 1)
  ELSE i

RECURSIVE srDoRead(_, _)

\* a _read that registers the callback it is given whatever is registered
sr_readOverwrites(st, c) == srDoRead([st EXCEPT !.readCallback = TRUE], c)

\* _read(size, callback): c.sync tells whether the Duplex base class asks
\* for the next chunk from inside the callback of the one before
sr_read(st, c) ==
  IF st.readCallback
  THEN [st EXCEPT !.ex = TRUE]
  ELSE srDoRead([st EXCEPT !.readCallback = TRUE], c)

\* _handleMessage(chunk)
srHandleMessage(st, chunk, c) ==
  LET cb == st.readCallback
      st1 == [st EXCEPT !.readCallback = FALSE]
  IN IF cb
     THEN LET st2 == [st1 EXCEPT !.got = Append(@, chunk)]
          IN IF c.sync THEN sr_read(st2, c) ELSE st2
     ELSE [st1 EXCEPT !.dropped = Append(@, chunk)]

\* _sendPositiveResponse()
srSendPositiveResponse(st) ==
  [st EXCEPT !.out = @ \o packHeader("positive response", 0)]

\* _handleRequest(chunk) with the attach callback of testBulkData, which
\* calls request.accept() at once
srHandleRequest(st, chunk) ==
  srSendPositiveResponse([st EXCEPT !.mode = "established"])

\* _readTrailer()
srReadTrailer(st, c) ==
  IF st.buffered < st.trailerLength
  THEN st
  ELSE LET i == SrNonEmpty(st.item)
           chunk == [lo |-> SrStream[i].lo, hi |-> SrStream[i].hi]
           type == st.trailerType
           st1 == [st EXCEPT !.buffered = @ - st.trailerLength,
                             !.item = i + 1,
                             !.readFunc = "readHeader",
                             !.trailerType = "null",
                             !.trailerLength = 0]
       IN CASE type = "request" -> srHandleRequest(st1, chunk)
            [] type = "message" -> srHandleMessage(st1, chunk, c)
            [] OTHER -> st1

\* _readHeader()
srReadHeader(st, c) ==
  IF st.buffered < HEADER_LENGTH
  THEN st
  ELSE LET i == SrNonEmpty(st.item)
           chunk == SrStream[i].hdr
           t == headerType(chunk)
           type == IF VALID_TYPES(st.mode, t) THEN t ELSE "ignore"
           length == headerLength(chunk)
           st1 == [st EXCEPT !.buffered = @ - HEADER_LENGTH,
                             !.item = i + 1,
                             !.trailerType = type,
                             !.trailerLength = length]
       IN IF length > 0
          THEN srReadTrailer([st1 EXCEPT !.readFunc = "readTrailer"], c)
          ELSE [st1 EXCEPT !.trailerType = "null", !.trailerLength = 0]

\* _doRead()
srDoRead(st, c) ==
  LET st1 == IF st.readFunc = "readTrailer"
             THEN srReadTrailer(st, c)
             ELSE srReadHeader(st, c)
  IN IF st1.ex
     THEN st1
     ELSE IF st1.mode # "established" \/ st1.trailerLength > 0
             \/ st1.readCallback
          THEN [st1 EXCEPT !.listeners = @ + 1]
          ELSE st1

\* the input stream emits 'readable': the once('readable') listeners
\* registered before the event run in order
RECURSIVE srReadable(_, _, _)
srReadable(st, n, c) ==
  IF n = 0 \/ st.ex THEN st ELSE srReadable(srDoRead(st, c), n - 1, c)

\* attach(socket, callback) on the idle session
SrAttach ==
  /\ sr.mode = "null"
  /\ sr' = srDoRead([sr EXCEPT !.mode = "establishingIn"], [sync |-> FALSE])

\* the consumer of the Duplex stream asks for data: the base class calls
\* _read when no _read is outstanding
SrRead ==
  /\ sr.mode # "null"
  /\ ~sr.ex
  /\ ~sr.readCallback
  /\ \E sync \in BOOLEAN :
       sr' = [sr_read(sr, [sync |-> sync]) EXCEPT !.reads = sr.reads + 1]

\* _read is called while the callback of an earlier _read is registered
SrReadAgain ==
  /\ sr.mode # "null"
  /\ ~sr.ex
  /\ sr.readCallback
  /\ sr' = [sr_read(sr, [sync |-> FALSE]) EXCEPT !.reads = sr.reads + 1]

\* where a transport segment may end: at the end of what was written, at the
\* end of an item, or DeliverUnit bytes after the end of an item
SrCuts ==
  LET n == Len(SrStream)
      ends == {SizeUpTo(SrStream, j) : j \in 0 .. n}
  IN {x \in ends \cup {e + DeliverUnit : e \in ends} :
        x <= SizeUpTo(SrStream, n)}

\* a transport segment arrives: the input stream buffers it and emits
\* 'readable'
SrDeliver ==
  /\ sr.mode # "null"
  /\ ~sr.ex
  /\ \E x \in SrCuts, sync \in BOOLEAN :
       /\ x > sr.arrived
       /\ sr' = srReadable([sr EXCEPT !.buffered = @ + (x - sr.arrived),
                                      !.arrived = x,
                                      !.listeners = 0],
                           sr.listeners, [sync |-> sync])

----------------------------------------------------------------------------
(* The event-emitter version (part_004, lines 1-599): two sessions, "srv"  *)
(* attached to the accepting end of one connection and "cli" connecting    *)
(* from the other end.  A handler of the code is an operator from the      *)
(* state (a record w of all the session variables) to the state after it;  *)
(* an action runs one turn of the event loop to completion.  The fields    *)
(* cr, ret and ex of w live only inside one turn: cr is how many more      *)
(* transport writes of this turn are reported flushed, ret the value the   *)
(* last called function returned, ex whether an exception is propagating.  *)

Sessions == {"srv", "cli"}

Peer(s) == IF s = "srv" THEN "cli" ELSE "srv"

\* the byte the payload of the first write is made of; the next write uses
\* the next byte, so that no two non-empty payloads are equal
MsgBase == 7

\* the longest message payload written
MaxMsgLen == 1

\* how many write() calls one session's application makes
MaxWrites == 2

\* how many pause() calls one session's application makes
MaxPauses == 1

\* how many read-pump continuations resume() may add up to
MaxPump == 2

\* the payloads the i-th write of an application is drawn from
Payloads(i) == UNION {[1 .. n -> {MsgBase + i}] : n \in 0 .. MaxMsgLen}

\* the name records of the model: one byte each
NameIds == {1, 2}

\* NBName.fromBuffer(chunk, offset) of the external name codec: a record is
\* one byte, and decoding fails past the end of the chunk or on another byte
fromBuffer(chunk, offset) ==
  IF offset < Len(chunk) /\ chunk[offset + 1] \in NameIds
  THEN [error |-> FALSE, bytesRead |-> 1, name |-> chunk[offset + 1]]
  ELSE [error |-> TRUE, bytesRead |-> 0, name |-> 0]

World ==
  [mode |-> mode, socket |-> socket, opts |-> opts, paused |-> paused,
   attachCallback |-> attachCallback, connectCallback |-> connectCallback,
   trailerType |-> trailerType, trailerLength |-> trailerLength,
   readFunc |-> readFunc, needDrain |-> needDrain,
   inputStream |-> inputStream, inbuf |-> inbuf, wire |-> wire,
   tickq |-> tickq, readableL |-> readableL, sockFull |-> sockFull,
   sockEnded |-> sockEnded, connq |-> connq, drainL |-> drainL,
   requests |-> requests, log |-> log, out |-> out, app |-> app,
   cr |-> 0, ret |-> FALSE, ex |-> FALSE, errL |-> TRUE]

Commit(w) ==
  /\ mode' = w.mode /\ socket' = w.socket /\ opts' = w.opts
  /\ paused' = w.paused /\ attachCallback' = w.attachCallback
  /\ connectCallback' = w.connectCallback /\ trailerType' = w.trailerType
  /\ trailerLength' = w.trailerLength /\ readFunc' = w.readFunc
  /\ needDrain' = w.needDrain /\ inputStream' = w.inputStream
  /\ inbuf' = w.inbuf /\ wire' = w.wire /\ tickq' = w.tickq
  /\ readableL' = w.readableL /\ sockFull' = w.sockFull
  /\ sockEnded' = w.sockEnded /\ connq' = w.connq /\ drainL' = w.drainL
  /\ requests' = w.requests /\ log' = w.log /\ out' = w.out /\ app' = w.app

\* one entry of the application's log: what it was told, and the session's
\* mode and pause state at that moment
Ev(w, s, ev, data, err) ==
  [ev |-> ev, data |-> data, err |-> err, mode |-> w.mode[s],
   paused |-> w.paused[s], pauseSrc |-> w.app[s].pauseSrc]

Emit(w, s, ev, data, err) ==
  [w EXCEPT !.log[s] = Append(@, Ev(w, s, ev, data, err))]

\* an exception leaves the running handler
Throw(w, s, what) == [Emit(w, s, "throw", <<>>, what) EXCEPT !.ex = TRUE]

\* the session's process died of an uncaught exception
Crashed(s) == log[s] # <<>> /\ log[s][Len(log[s])].ev = "throw"

\* the turn starts with a transport that flushes the next credit writes
StartTurn(w, s, credit) ==
  [w EXCEPT !.cr = IF w.sockFull[s] THEN 0 ELSE credit]

\* ss.socket.write(buf): the transport takes the bytes in order and reports
\* whether it flushed them (w.ret)
sockWrite(w, s, buf) ==
  [w EXCEPT !.wire[Peer(s)] = @ \o buf,
            !.out[s] = @ \o buf,
            !.ret = (w.cr > 0),
            !.cr = IF @ > 0 THEN @ - 1 ELSE 0,
            !.sockFull[s] = (w.cr = 0)]

TickItem(k, ev, err) == [k |-> k, ev |-> ev, err |-> err]

\* process.nextTick(f)
nextTick(w, s, item) == [w EXCEPT !.tickq[s] = Append(@, item)]

\* _doRead(): the pump step is deferred to the next tick
doRead(w, s) == nextTick(w, s, TickItem("doRead", "", ""))

DrainItem(k, msg, cb) == [k |-> k, msg |-> msg, cb |-> cb]

\* ss.socket.once('drain', f)
onceDrain(w, s, item) == [w EXCEPT !.drainL[s] = Append(@, item)]

\* end()
end(w, s) ==
  IF w.socket[s] # "null"
  THEN [w EXCEPT !.mode[s] = "null", !.paused[s] = FALSE,
                 !.app[s].pauseSrc = "none",
                 !.sockEnded[s] = @ + 1, !.socket[s] = "null"]
  ELSE w

\* an _established() that emits 'connect' and leaves ss.mode as it is
establishedEventOnly(w, s) == Emit(w, s, "connect", <<>>, "")

\* _established()
established(w, s) ==
  Emit([w EXCEPT !.mode[s] = "established"], s, "connect", <<>>, "")

\* _sendPositiveResponse()
sendPositiveResponse(w, s) ==
  IF w.socket[s] = "null"
  THEN Throw(w, s, "TypeError")
  ELSE sockWrite(w, s, packHeader("positive response", 0))

\* the error code _sendNegativeResponse writes when the lookup result is
\* used as it is, without the fallback
errorCodeNoFallback(errorString) == ERROR_CODE_FROM_STRING(errorString)

\* the error code _sendNegativeResponse writes for a reason
errorCode(errorString) ==
  IF ERROR_CODE_FROM_STRING(errorString) = 0
  THEN ERROR_CODE_FROM_STRING("Unspecified error")
  ELSE ERROR_CODE_FROM_STRING(errorString)

\* a _sendNegativeResponse that ends the session without waiting for 'drain'
sendNegativeResponseNoWait(w, s, errorString) ==
  IF w.socket[s] = "null"
  THEN Throw(w, s, "TypeError")
  ELSE end(sockWrite(w, s, packHeader("negative response", 1)
                             \o <<errorCode(errorString)>>), s)

\* _sendNegativeResponse(errorString)
sendNegativeResponse(w, s, errorString) ==
  IF w.socket[s] = "null"
  THEN Throw(w, s, "TypeError")
  ELSE LET w1 == sockWrite(w, s, packHeader("negative response", 1)
                                   \o <<errorCode(errorString)>>)
       IN IF w1.ret
          THEN end(w1, s)
          ELSE onceDrain(w1, s, DrainItem("end", <<>>, FALSE))

\* a request.accept() that leaves the request's accept and reject in place
acceptKeepsFields(w, s, i) ==
  LET w1 == sendPositiveResponse(established(w, s), s)
  IN IF w1.ex THEN w1
     ELSE [w1 EXCEPT !.requests[s][i].done = "accept"]

\* request.accept() of request number i
accept(w, s, i) ==
  LET w1 == sendPositiveResponse(established(w, s), s)
  IN IF w1.ex THEN w1
     ELSE [w1 EXCEPT !.requests[s][i].live = FALSE,
                     !.requests[s][i].done = "accept"]

\* a request.reject() that runs _established() before the negative response
rejectEstablishes(w, s, i, reason) ==
  LET w1 == sendNegativeResponse(established(w, s), s, reason)
  IN IF w1.ex THEN w1
     ELSE [w1 EXCEPT !.requests[s][i].live = FALSE,
                     !.requests[s][i].done = "reject",
                     !.requests[s][i].reason = reason]

\* request.reject(reason) of request number i
reject(w, s, i, reason) ==
  LET w1 == sendNegativeResponse(w, s, reason)
  IN IF w1.ex THEN w1
     ELSE [w1 EXCEPT !.requests[s][i].live = FALSE,
                     !.requests[s][i].done = "reject",
                     !.requests[s][i].reason = reason]

\* a _handleRequest that goes on to the default policy after the attach
\* callback has returned
handleRequestFallsThrough(w, s, chunk, c) ==
  LET n1 == fromBuffer(chunk, 0)
      hasCb == w.attachCallback[s] = "fn"
      n2 == fromBuffer(chunk, n1.bytesRead)
      request == [callTo |-> n1.name, callFrom |-> n2.name,
                  live |-> TRUE, dec |-> c.dec, done |-> "none",
                  reason |-> "undefined"]
      i == Len(w.requests[s]) + 1
      w2 == Emit([w EXCEPT !.requests[s] = Append(@, request)], s,
                 "attachCb", <<n1.name, n2.name>>, "")
  IN IF n1.error \/ n2.error
     THEN IF hasCb THEN Emit(w, s, "attachCb", <<>>, "name error") ELSE w
     ELSE IF hasCb
          THEN CASE c.dec = "accept" -> accept(w2, s, i)
                 [] c.dec = "reject" -> reject(w2, s, i, c.reason)
                 [] OTHER -> sendPositiveResponse(established(w2, s), s)
          ELSE sendPositiveResponse(established(w, s), s)

\* _handleRequest(chunk); c.dec is what the attach callback does with the
\* request it is given: accept it, reject it with c.reason, or keep it
handleRequest(w, s, chunk, c) ==
  LET n1 == fromBuffer(chunk, 0)
      hasCb == w.attachCallback[s] = "fn"
      w1 == IF n1.error /\ hasCb
            THEN Emit(w, s, "attachCb", <<>>, "name error")
            ELSE w
      callTo == n1
      n2 == fromBuffer(chunk, callTo.bytesRead)
      callFrom == n2
      request == [callTo |-> callTo.name, callFrom |-> callFrom.name,
                  live |-> TRUE, dec |-> c.dec, done |-> "none",
                  reason |-> "undefined"]
      i == Len(w.requests[s]) + 1
      w2 == Emit([w1 EXCEPT !.requests[s] = Append(@, request)], s,
                 "attachCb", <<callTo.name, callFrom.name>>, "")
  IN IF n2.error
     THEN IF hasCb THEN Emit(w1, s, "attachCb", <<>>, "name error") ELSE w1
     ELSE IF hasCb
          THEN CASE c.dec = "accept" -> accept(w2, s, i)
                 [] c.dec = "reject" -> reject(w2, s, i, c.reason)
                 [] OTHER -> w2
          ELSE \* ss.acceptDefault is set nowhere: !undefined is true
               sendPositiveResponse(established(w1, s), s)

\* _handleMessage(chunk); c.hp: the 'message' handler calls pause()
handleMessage(w, s, chunk, c) ==
  LET w1 == Emit(w, s, "message", chunk, "")
  IN IF c.hp
     THEN [w1 EXCEPT !.paused[s] = TRUE,
                     !.app[s].pauseSrc =
                        IF w1.paused[s] THEN @
                        ELSE IF w1.mode[s] = "established" THEN "est" ELSE "pre",
                     !.app[s].pauses = @ + 1]
     ELSE w1

\* _handlePositiveResponse()
handlePositiveResponse(w, s) ==
  IF w.mode[s] # "establishingOut"
  THEN w
  ELSE LET cb == w.connectCallback[s]
           w1 == established([w EXCEPT !.connectCallback[s] = "null"], s)
       IN IF cb = "fn" THEN Emit(w1, s, "connectCb", <<>>, "") ELSE w1

\* the message of the error _handleNegativeResponse builds for a code
responseError(errCode) ==
  LET errString == IF ERROR_CODE_TO_STRING(errCode) = "undefined"
                   THEN "unknown error"
                   ELSE ERROR_CODE_TO_STRING(errCode)
  IN "Connection failed with response code [" \o errString \o "]"

\* a _handleNegativeResponse that reports the failure and leaves the
\* session and its connect callback as they are
handleNegativeResponseStaysOpen(w, s, chunk) ==
  IF w.mode[s] # "establishingOut"
  THEN w
  ELSE IF w.connectCallback[s] = "fn"
       THEN Emit(w, s, "connectCb", <<>>,
                 IF Len(chunk) # 1 THEN "Malformed negative response"
                 ELSE responseError(chunk[1]))
       ELSE w

\* _handleNegativeResponse(chunk)
handleNegativeResponse(w, s, chunk) ==
  IF w.mode[s] # "establishingOut"
  THEN w
  ELSE LET cb == w.connectCallback[s]
           w1 == [w EXCEPT !.connectCallback[s] = "null"]
       IN IF Len(chunk) # 1 /\ cb = "fn"
          THEN end(Emit(w1, s, "connectCb", <<>>, "Malformed negative response"), s)
          ELSE LET e == responseError(chunk[1])
                   w2 == IF cb = "fn"
                         THEN Emit(w1, s, "connectCb", <<chunk[1]>>, e)
                         ELSE w1
               IN end(w2, s)

\* _readTrailer(); w.ret is its return value
readTrailer(w, s, c) ==
  IF Len(w.inbuf[s]) < w.trailerLength[s]
  THEN [w EXCEPT !.ret = FALSE]
  ELSE LET n == w.trailerLength[s]
           chunk == SubSeq(w.inbuf[s], 1, n)
           type == w.trailerType[s]
           w1 == [w EXCEPT !.inbuf[s] = SubSeq(@, n + 1, Len(@)),
                           !.readFunc[s] = "readHeader",
                           !.trailerType[s] = "null",
                           !.trailerLength[s] = 0]
           w2 == CASE type = "request" -> handleRequest(w1, s, chunk, c)
                   [] type = "message" -> handleMessage(w1, s, chunk, c)
                   [] type = "negative response" -> handleNegativeResponse(w1, s, chunk)
                   [] OTHER -> w1
       IN [w2 EXCEPT !.ret = TRUE]

\* _readHeader(); w.ret is its return value
readHeader(w, s, c) ==
  IF Len(w.inbuf[s]) < HEADER_LENGTH
  THEN [w EXCEPT !.ret = FALSE]
  ELSE LET chunk == SubSeq(w.inbuf[s], 1, HEADER_LENGTH)
           w1 == [w EXCEPT !.inbuf[s] = SubSeq(@, HEADER_LENGTH + 1, Len(@))]
           t == headerType(chunk)
           type == IF VALID_TYPES(w.mode[s], t) THEN t ELSE "ignore"
           length == headerLength(chunk)
           w2 == [w1 EXCEPT !.trailerType[s] = type, !.trailerLength[s] = length]
           w3 == [w2 EXCEPT !.trailerType[s] = "null", !.trailerLength[s] = 0]
       IN IF w.mode[s] = "null"
          THEN \* VALID_TYPES[null] is undefined: indexing it throws
               Throw(w1, s, "TypeError")
          ELSE IF length > 0
               THEN readTrailer([w2 EXCEPT !.readFunc[s] = "readTrailer"], s, c)
               ELSE [(IF type = "positive response"
                      THEN handlePositiveResponse(w3, s)
                      ELSE w3) EXCEPT !.ret = TRUE]

\* ss.readFunc(); ss.inputStream is undefined before attach or connect
callReadFunc(w, s, c) ==
  IF ~w.inputStream[s]
  THEN Throw(w, s, "TypeError")
  ELSE IF w.readFunc[s] = "readTrailer"
       THEN readTrailer(w, s, c)
       ELSE readHeader(w, s, c)

\* a pump step that stops on the pause flag in every mode
pumpStepPausedAnyMode(w, s, c) ==
  LET w1 == callReadFunc(w, s, c)
  IN IF w1.ex THEN w1
     ELSE IF w1.paused[s] THEN w1
     ELSE IF ~w1.ret THEN [w1 EXCEPT !.readableL[s] = @ + 1]
     ELSE doRead(w1, s)

\* the function _doRead defers: one step of the read pump
pumpStep(w, s, c) ==
  LET w1 == callReadFunc(w, s, c)
  IN IF w1.ex THEN w1
     ELSE IF w1.mode[s] = "established" /\ w1.paused[s] THEN w1
     ELSE IF ~w1.ret THEN [w1 EXCEPT !.readableL[s] = @ + 1]
     ELSE doRead(w1, s)

\* a _doDrain that clears the flag and emits nothing
doDrainNoEvent(w, s, cb) ==
  LET w1 == [w EXCEPT !.needDrain[s] = FALSE]
  IN IF cb THEN nextTick(w1, s, TickItem("cb", "writeCb", "")) ELSE w1

\* _doDrain(callback)
doDrain(w, s, cb) ==
  LET w1 == IF w.needDrain[s]
            THEN Emit([w EXCEPT !.needDrain[s] = FALSE], s, "drain", <<>>, "")
            ELSE w
  IN IF cb THEN nextTick(w1, s, TickItem("cb", "writeCb", "")) ELSE w1

\* _writeMsg(msg, callback); w.ret is its return value
writeMsg(w, s, msg, cb) ==
  IF w.socket[s] = "null"
  THEN Throw(w, s, "TypeError")
  ELSE LET w1 == sockWrite(w, s, msg.data)
       IN IF ~w1.ret
          THEN [onceDrain([w1 EXCEPT !.needDrain[s] = TRUE], s,
                          DrainItem("doDrain", msg, cb)) EXCEPT !.ret = FALSE]
          ELSE [doDrain(w1, s, cb) EXCEPT !.ret = TRUE]

\* an emit('error', error) that reaches no listener and throws nothing
emitErrorSilent(w, s, err) == w

\* this.emit('error', error): an EventEmitter with no 'error' listener
\* throws the error instead; w.errL tells whether the application has
\* registered one
emitError(w, s, err) ==
  IF w.errL THEN Emit(w, s, "error", <<>>, err) ELSE Throw(w, s, err)

\* write(msg, callback); w.ret is its return value
write(w, s, msg, cb) ==
  IF msg.len > MAX_TRAILER_LENGTH
  THEN LET w1 == emitError(w, s, "Message length exceeds maximum")
           w2 == IF cb
                 THEN nextTick(w1, s, TickItem("cb", "writeCb",
                                               "Message length exceeds maximum"))
                 ELSE w1
       IN IF w1.ex THEN w1 ELSE [w2 EXCEPT !.ret = TRUE]
  ELSE IF w.socket[s] = "null"
       THEN Throw(w, s, "TypeError")
       ELSE LET w1 == sockWrite(w, s, packHeader("message", msg.len))
            IN IF ~w1.ret
               THEN [onceDrain([w1 EXCEPT !.needDrain[s] = TRUE], s,
                               DrainItem("writeMsg", msg, cb)) EXCEPT !.ret = FALSE]
               ELSE writeMsg(w1, s, msg, cb)

\* _sendRequest(callTo, callFrom, callback); the names of the model always
\* encode, into one byte each
sendRequest(w, s, callTo, callFrom, cb) ==
  sockWrite([w EXCEPT !.connectCallback[s] = cb], s,
            packHeader("request", 2) \o <<callTo, callFrom>>)

\* _initInputStream(): a new Readable wraps ss.socket
initInputStream(w, s) ==
  [w EXCEPT !.inputStream[s] = TRUE, !.inbuf[s] = <<>>]

\* _connectSocket(socket, callFrom, callTo, cb)
connectSocket(w, s, callFrom, callTo, cb) ==
  LET w1 == [initInputStream([w EXCEPT !.socket[s] = "open"], s)
               EXCEPT !.mode[s] = "establishingOut"]
  IN IF w1.opts[s].direct
     THEN doRead(established(
            IF cb = "fn" THEN Emit(w1, s, "connectCb", <<>>, "") ELSE w1, s), s)
     ELSE doRead(sendRequest(w1, s, callTo, callFrom, cb), s)

\* an attach that binds the socket whatever the session's state
attachUnguarded(w, s, cb) ==
  LET w1 == initInputStream([w EXCEPT !.socket[s] = "open"], s)
  IN IF w1.opts[s].direct
     THEN doRead(established(w1, s), s)
     ELSE doRead([w1 EXCEPT !.mode[s] = "establishingIn",
                            !.attachCallback[s] = cb], s)

\* attach(socket, callback)
attach(w, s, cb) ==
  IF w.mode[s] # "null" \/ w.socket[s] # "null"
  THEN IF cb = "fn"
       THEN nextTick(w, s, TickItem("cb", "attachCb",
                                    "Cannot attach Session already active."))
       ELSE w
  ELSE LET w1 == initInputStream([w EXCEPT !.socket[s] = "open"], s)
       IN IF w1.opts[s].direct
          THEN doRead(established(w1, s), s)
          ELSE doRead([w1 EXCEPT !.mode[s] = "establishingIn",
                                 !.attachCallback[s] = cb], s)

\* connect(port, addr, callFrom, callTo, cb): net.createConnection with a
\* ready callback that calls _connectSocket
connect(w, s, callFrom, callTo, cb) ==
  IF w.mode[s] # "null" \/ w.socket[s] # "null"
  THEN IF cb = "fn"
       THEN nextTick(w, s, TickItem("cb", "connectCb",
                                    "Cannot connect Session already active."))
       ELSE w
  ELSE [w EXCEPT !.connq[s] = Append(@, [callFrom |-> callFrom,
                                         callTo |-> callTo, cb |-> cb])]

\* pause()
pause(w, s) ==
  [w EXCEPT !.paused[s] = TRUE,
            !.app[s].pauseSrc =
               IF w.paused[s] THEN @
               ELSE IF w.mode[s] = "established" THEN "est" ELSE "pre"]

\* resume()
resume(w, s) ==
  IF w.paused[s]
  THEN doRead([w EXCEPT !.paused[s] = FALSE, !.app[s].pauseSrc = "none"], s)
  ELSE w

\* the transport's 'drain' event calls the listeners registered when it was
\* emitted, in order; an exception in one leaves the later ones registered
RECURSIVE runDrain(_, _, _)
runDrain(w, s, ls) ==
  IF ls = <<>>
  THEN w
  ELSE LET l == Head(ls)
           w1 == CASE l.k = "end" -> end(w, s)
                   [] l.k = "writeMsg" -> writeMsg(w, s, l.msg, l.cb)
                   [] OTHER -> doDrain(w, s, l.cb)
       IN IF w1.ex
          THEN [w1 EXCEPT !.drainL[s] = Tail(ls) \o @]
          ELSE runDrain(w1, s, Tail(ls))

\* a callback deferred with process.nextTick runs
runCallback(w, s, item) ==
  Emit([w EXCEPT !.app[s].awaiting = IF item.ev = "writeCb" THEN FALSE ELSE @],
       s, item.ev, <<>>, item.err)

----------------------------------------------------------------------------
(* The actions: one turn of a session's event loop each.                   *)

\* what reject() is given: a reason of the table, nothing, or another string
ReasonChoices == ReasonStrings \cup {"undefined", "no such reason"}

Msg(d) == [len |-> Len(d), data |-> d]

PumpCount(s) ==
  readableL[s] + Cardinality({i \in 1 .. Len(tickq[s]) : tickq[s][i].k = "doRead"})

NoTurn == [k |-> "none", s |-> "none", n |-> 0]

\* the turn of kind k of session s is the one that ran last; n alternates,
\* so that every recorded turn changes the record
Ran(k, s) == last' = [k |-> k, s |-> s, n |-> 1 - last.n]

AppInit(p) == [sent |-> <<>>, pauses |-> 0,
               pauseSrc |-> IF p THEN "ctor" ELSE "none",
               seqOK |-> TRUE, awaiting |-> FALSE, attaches |-> 0,
               connects |-> 0, lastRet |-> "none", ends |-> 0,
               ccb |-> "none", injected |-> 0, cbArg |-> "none",
               longW |-> 0, errL |-> TRUE, cargs |-> <<>>]

SessInitWith(o) ==
  /\ opts = o
  /\ mode = [s \in Sessions |-> "null"]
  /\ socket = [s \in Sessions |-> "null"]
  /\ paused = [s \in Sessions |-> o[s].paused]
  /\ attachCallback = [s \in Sessions |-> "null"]
  /\ connectCallback = [s \in Sessions |-> "null"]
  /\ trailerType = [s \in Sessions |-> "null"]
  /\ trailerLength = [s \in Sessions |-> 0]
  /\ readFunc = [s \in Sessions |-> "readHeader"]
  /\ needDrain = [s \in Sessions |-> FALSE]
  /\ inputStream = [s \in Sessions |-> FALSE]
  /\ inbuf = [s \in Sessions |-> <<>>]
  /\ wire = [s \in Sessions |-> <<>>]
  /\ tickq = [s \in Sessions |-> <<>>]
  /\ readableL = [s \in Sessions |-> 0]
  /\ sockFull = [s \in Sessions |-> FALSE]
  /\ sockEnded = [s \in Sessions |-> 0]
  /\ connq = [s \in Sessions |-> <<>>]
  /\ drainL = [s \in Sessions |-> <<>>]
  /\ requests = [s \in Sessions |-> <<>>]
  /\ log = [s \in Sessions |-> <<>>]
  /\ out = [s \in Sessions |-> <<>>]
  /\ app = [s \in Sessions |-> AppInit(o[s].paused)]
  /\ last = NoTurn

Options == [direct : BOOLEAN, autoAccept : BOOLEAN, paused : BOOLEAN]

NoOptions == [direct |-> FALSE, autoAccept |-> FALSE, paused |-> FALSE]

\* new NetbiosSession() for both ends
SessIdle == SessInitWith([s \in Sessions |-> NoOptions])

\* the application of the accepting end calls attach(socket, callback) with
\* the socket of the connection the other end opened
Attach(s, cbs) ==
  /\ s = "srv"
  /\ ~Crashed(s)
  /\ app[s].attaches < 1
  /\ app[Peer(s)].connects > 0
  /\ \E cb \in cbs :
       Commit(attach([World EXCEPT !.app[s].attaches = @ + 1], s, cb))

\* the application calls connect(port, addr, a3, a4, cb)
Connect(s, names, cbs) ==
  /\ s = "cli"
  /\ ~Crashed(s)
  /\ app[s].connects < 1
  /\ \E a \in names, cb \in cbs :
       Commit(connect([World EXCEPT !.app[s].connects = @ + 1,
                                    !.app[s].ccb = cb,
                                    !.app[s].cargs = a], s, a[1], a[2], cb))

\* the socket connect() created is ready: its callback calls _connectSocket
ConnectReadyEnabled(s) == connq[s] # <<>> /\ tickq[s] = <<>> /\ ~Crashed(s)

ConnectReady(s) ==
  /\ ConnectReadyEnabled(s)
  /\ \E credit \in {0, 1} :
       LET q == Head(connq[s])
           w0 == StartTurn([World EXCEPT !.connq[s] = Tail(@)], s, credit)
       IN Commit(connectSocket(w0, s, q.callFrom, q.callTo, q.cb))

\* what the attach callback may do with a request: the choice matters only
\* in a turn that can hand it one
AllDecisions ==
  {[dec |-> "accept", reason |-> "undefined"],
   [dec |-> "defer", reason |-> "undefined"]}
  \cup {[dec |-> "reject", reason |-> r] : r \in ReasonChoices}

AcceptDecisions ==
  {[dec |-> "accept", reason |-> "undefined"],
   [dec |-> "defer", reason |-> "undefined"]}

DecisionChoices(s, decs) ==
  IF mode[s] = "establishingIn" \/ trailerType[s] = "request"
  THEN decs
  ELSE {[dec |-> "defer", reason |-> "undefined"]}

\* whether the 'message' handler calls pause(): the choice matters only in a
\* turn that can emit 'message'
HandlerPauseChoices(s, hps) ==
  IF (mode[s] = "established" \/ trailerType[s] = "message")
     /\ app[s].pauses < MaxPauses
  THEN hps
  ELSE {FALSE}

\* the head of the nextTick queue runs: a pump step or a deferred callback;
\* a pump step makes at most one transport write (the handshake response)
TickEnabled(s) == tickq[s] # <<>> /\ ~Crashed(s)

Tick(s, decs, hps) ==
  /\ TickEnabled(s)
  /\ \E d \in DecisionChoices(s, decs), hp \in HandlerPauseChoices(s, hps) :
     \E credit \in (IF d.dec = "defer" THEN {0} ELSE {0, 1}) :
       LET item == Head(tickq[s])
           w0 == StartTurn([World EXCEPT !.tickq[s] = Tail(@)], s, credit)
           c == [dec |-> d.dec, reason |-> d.reason, hp |-> hp]
       IN Commit(IF item.k = "doRead"
                 THEN pumpStep(w0, s, c)
                 ELSE runCallback(w0, s, item))

\* bytes arrive from the peer, DeliverUnit of them or all that is in flight: the input
\* stream buffers them and emits 'readable', which calls every
\* once('readable') listener
DeliverEnabled(s) ==
  inputStream[s] /\ tickq[s] = <<>> /\ wire[s] # <<>> /\ ~Crashed(s)

Deliver(s) ==
  /\ DeliverEnabled(s)
  /\ \E k \in {Min(DeliverUnit, Len(wire[s])), Len(wire[s])} :
       /\ inbuf' = [inbuf EXCEPT ![s] = @ \o SubSeq(wire[s], 1, k)]
       /\ wire' = [wire EXCEPT ![s] = SubSeq(@, k + 1, Len(@))]
       /\ tickq' = [tickq EXCEPT ![s] =
                      [i \in 1 .. readableL[s] |-> TickItem("doRead", "", "")]]
       /\ readableL' = [readableL EXCEPT ![s] = 0]
       /\ UNCHANGED <<mode, socket, opts, paused, attachCallback,
                      connectCallback, trailerType, trailerLength, readFunc,
                      needDrain, inputStream, sockFull, sockEnded, connq,
                      drainL, requests, log, out, app>>

\* the transport emits 'drain'
DrainEnabled(s) == sockFull[s] /\ tickq[s] = <<>> /\ ~Crashed(s)

Drain(s) ==
  /\ DrainEnabled(s)
  /\ \E credit \in 0 .. Len(drainL[s]) :
       LET w0 == [World EXCEPT !.sockFull[s] = FALSE, !.drainL[s] = <<>>]
       IN Commit(runDrain(StartTurn(w0, s, credit), s, drainL[s]))

\* the application calls write(msg, callback); a write makes two transport
\* writes, so the transport flushes none, one or both of them
Write(s, cbs, credits) ==
  /\ ~Crashed(s)
  /\ Len(app[s].sent) < MaxWrites
  /\ \E d \in Payloads(Len(app[s].sent)), cb \in cbs, credit \in credits :
       LET w0 == StartTurn([World EXCEPT
                     !.app[s].sent = Append(@, d),
                     !.app[s].seqOK = @ /\ cb /\ ~app[s].awaiting,
                     !.app[s].awaiting = TRUE], s, credit)
           w1 == write(w0, s, Msg(d), cb)
       IN Commit(IF w1.ex THEN w1
                 ELSE [w1 EXCEPT !.app[s].lastRet = IF w1.ret THEN "true" ELSE "false"])

\* how many over-long messages the application of a session writes
MaxLong == 1

\* the lengths of the over-long messages: one byte more than the maximum, and
\* a length that needs 18 bits
LongLens == {MAX_TRAILER_LENGTH + 1, 2 * EXTENSION_LENGTH}

\* the application calls write(msg, callback) with a msg longer than the
\* maximum, with or without a callback and with or without an 'error'
\* listener; the content of such a msg is not modelled
WriteLong(s, cbs, errLs) ==
  /\ ~Crashed(s)
  /\ app[s].longW < MaxLong
  /\ \E n \in LongLens, cb \in cbs, errL \in errLs :
       LET w0 == StartTurn([World EXCEPT
                     !.app[s].longW = @ + 1,
                     !.app[s].cbArg = IF cb THEN "fn" ELSE "null",
                     !.app[s].errL = errL,
                     !.errL = errL], s, 2)
           w1 == write(w0, s, [len |-> n, data |-> <<>>], cb)
       IN Commit([w1 EXCEPT !.app[s].lastRet =
                    IF w1.ex THEN "threw"
                    ELSE IF w1.ret THEN "true" ELSE "false"])

\* the application calls pause()
Pause(s) ==
  /\ ~Crashed(s)
  /\ app[s].pauses < MaxPauses
  /\ Commit(pause([World EXCEPT !.app[s].pauses = @ + 1], s))

\* the application calls resume()
Resume(s) ==
  /\ ~Crashed(s)
  /\ paused[s]
  /\ PumpCount(s) < MaxPump
  /\ Commit(resume(World, s))

\* the application calls end()
End(s) ==
  /\ ~Crashed(s)
  /\ socket[s] # "null"
  /\ Commit(end([World EXCEPT !.app[s].ends = @ + 1], s))

\* the application calls accept() of a request it kept
Accept(s) ==
  /\ ~Crashed(s)
  /\ \E i \in 1 .. Len(requests[s]), credit \in {0, 1} :
       /\ requests[s][i].live
       /\ Commit(accept(StartTurn(World, s, credit), s, i))

\* the application calls reject(reason) of a request it kept
Reject(s, reasons) ==
  /\ ~Crashed(s)
  /\ \E i \in 1 .. Len(requests[s]), credit \in {0, 1},
        reason \in reasons :
       /\ requests[s][i].live
       /\ Commit(reject(StartTurn(World, s, credit), s, i, reason))

\* a type byte that is no key of TYPE_TO_STRING
UnknownType == 7

\* the longest trailer of a frame the peer's transport end sends by itself
MaxInjectLen == 2

\* how many such frames the two sessions are sent
MaxInject == 1

\* the frames a peer can put on the transport whatever the state of the
\* session that reads them: every type, known or not, with a trailer of
\* name-record bytes
InjectFrames ==
  {packHeader(t, n) \o [i \in 1 .. n |-> 1] :
     t \in TypeStrings, n \in 0 .. MaxInjectLen}
  \cup {<<UnknownType, 0, 0, n>> \o [i \in 1 .. n |-> 1] :
          n \in 0 .. MaxInjectLen}

\* the other end of the transport of session s sends a frame of its own
Inject(s, frames) ==
  /\ inputStream[s]
  /\ ~Crashed(s)
  /\ app["srv"].injected + app["cli"].injected < MaxInject
  /\ \E f \in frames :
       /\ wire' = [wire EXCEPT ![s] = @ \o f]
       /\ app' = [app EXCEPT ![s].injected = @ + 1]
       /\ UNCHANGED <<mode, socket, opts, paused, attachCallback,
                      connectCallback, trailerType, trailerLength, readFunc,
                      needDrain, inputStream, inbuf, tickq, readableL,
                      sockFull, sockEnded, connq, drainL, requests, log, out>>

\* how many times the application of a session calls attach() or connect()
MaxBinds == 2

\* the application calls attach(socket, callback) on a session it has
\* already called attach() or connect() on
AttachAgain(s, cbs) ==
  /\ ~Crashed(s)
  /\ app[s].attaches + app[s].connects \in 1 .. MaxBinds - 1
  /\ \E cb \in cbs :
       Commit(attach([World EXCEPT !.app[s].attaches = @ + 1,
                                   !.app[s].cbArg = cb], s, cb))

\* the application calls connect(port, addr, a3, a4, cb) on a session it has
\* already called attach() or connect() on
ConnectAgain(s, names, cbs) ==
  /\ ~Crashed(s)
  /\ app[s].attaches + app[s].connects \in 1 .. MaxBinds - 1
  /\ \E a \in names, cb \in cbs :
       Commit(connect([World EXCEPT !.app[s].connects = @ + 1,
                                    !.app[s].cbArg = cb], s, a[1], a[2], cb))

\* the peer has ended its side of the transport and every byte it wrote was
\* read: the input stream emits 'end', which the session re-emits
PeerEndEnabled(s) ==
  /\ inputStream[s] /\ sockEnded[Peer(s)] > 0
  /\ wire[s] = <<>> /\ inbuf[s] = <<>> /\ tickq[s] = <<>>
  /\ ~Crashed(s)
  /\ \A i \in 1 .. Len(log[s]) : log[s][i].ev # "end"

PeerEnd(s) ==
  /\ PeerEndEnabled(s)
  /\ Commit(Emit(World, s, "end", <<>>, ""))

\* a byte that is no name record
BadName == 3

\* the call requests a peer can send whose name records may not decode: two
\* bytes, each a name record or not, and one byte alone
NameFrames ==
  {packHeader("request", 2) \o <<a, b>> : a, b \in {BadName, 1}}
  \cup {packHeader("request", 1) \o <<a>> : a \in {BadName, 1}}

NamePairs == {<<1, 2>>, <<2, 1>>}

Callbacks == {"fn", "null"}

----------------------------------------------------------------------------
(* The specifications.                                                     *)

\* The handshake: every way the two applications can run it, no messages.
HandshakeInit ==
  /\ SessInitWith([s \in Sessions |-> NoOptions])
  /\ codec = CodecIdle /\ sw = SwIdle /\ sr = SrIdle

HandshakeNext ==
  /\ \E s \in Sessions :
       \/ Attach(s, Callbacks)
       \/ Connect(s, NamePairs, Callbacks)
       \/ ConnectReady(s)
       \/ Tick(s, AllDecisions, {FALSE})
       \/ Deliver(s)
       \/ Drain(s)
       \/ End(s)
       \/ Accept(s)
       \/ Reject(s, ReasonChoices)
  /\ UNCHANGED <<codecVars, streamVars, turnVars>>

SpecHandshake == HandshakeInit /\ [][HandshakeNext]_vars

\* The handshake with an event loop that runs: a deferred function is run, a
\* ready socket calls back, bytes in flight arrive, and a transport that
\* reported 'not flushed' emits 'drain'. Each step records the turn it is,
\* so that the fairness conditions can name the turns.
FairHandshakeNext ==
  /\ \E s \in Sessions :
       \/ Attach(s, Callbacks) /\ Ran("app", s)
       \/ Connect(s, NamePairs, Callbacks) /\ Ran("app", s)
       \/ ConnectReady(s) /\ Ran("ConnectReady", s)
       \/ Tick(s, AllDecisions, {FALSE}) /\ Ran("Tick", s)
       \/ Deliver(s) /\ Ran("Deliver", s)
       \/ Drain(s) /\ Ran("Drain", s)
       \/ End(s) /\ Ran("app", s)
       \/ Accept(s) /\ Ran("app", s)
       \/ Reject(s, ReasonChoices) /\ Ran("app", s)
  /\ UNCHANGED <<codecVars, streamVars>>

\* the event loop's turns are weakly fair: a turn that stays possible runs
EventLoopFairness ==
  \A s \in Sessions :
    /\ WF_turnVars(TickEnabled(s) /\ Ran("Tick", s))
    /\ WF_turnVars(ConnectReadyEnabled(s) /\ Ran("ConnectReady", s))
    /\ WF_turnVars(DeliverEnabled(s) /\ Ran("Deliver", s))
    /\ WF_turnVars(DrainEnabled(s) /\ Ran("Drain", s))

FairHandshake ==
  HandshakeInit /\ [][FairHandshakeNext]_vars /\ EventLoopFairness

\* The exchange of messages after every handshake that establishes the
\* session: "cli" connects and writes, "srv" attaches, accepts at once or
\* later, and pauses and resumes; both ends are direct or neither is, and
\* "srv" may be constructed paused.
DataOptions ==
  {o \in [Sessions -> Options] :
     /\ o["cli"] = [NoOptions EXCEPT !.direct = o["srv"].direct]
     /\ ~o["srv"].autoAccept}

Init ==
  /\ \E o \in DataOptions : SessInitWith(o)
  /\ codec = CodecIdle /\ sw = SwIdle /\ sr = SrIdle

Next ==
  /\ \E s \in Sessions :
       \/ Attach(s, {"fn"})
       \/ Connect(s, {<<1, 2>>}, {"fn"})
       \/ ConnectReady(s)
       \/ Tick(s, AcceptDecisions, BOOLEAN)
       \/ Deliver(s)
       \/ Drain(s)
       \/ Accept(s)
       \/ s = "cli" /\ mode[s] = "established" /\ Write(s, {TRUE}, {0, 1, 2})
       \/ s = "srv" /\ mode[s] = "established" /\ Pause(s)
       \/ s = "srv" /\ Resume(s)
  /\ UNCHANGED <<codecVars, streamVars, turnVars>>

Spec == Init /\ [][Next]_vars

\* Messages written to a paused session: "srv" accepts at once, pauses when
\* Established and resumes; "cli" writes while "srv" is paused, each write
\* after the callback of the one before. The event loop runs its turns, and
\* each step records the turn it is.
SyncAccept == {[dec |-> "accept", reason |-> "undefined"]}

FairResumeNext ==
  /\ \E s \in Sessions :
       \/ Attach(s, {"fn"}) /\ Ran("app", s)
       \/ Connect(s, {<<1, 2>>}, {"fn"}) /\ Ran("app", s)
       \/ ConnectReady(s) /\ Ran("ConnectReady", s)
       \/ Tick(s, SyncAccept, {FALSE}) /\ Ran("Tick", s)
       \/ Deliver(s) /\ Ran("Deliver", s)
       \/ Drain(s) /\ Ran("Drain", s)
       \/ /\ s = "cli" /\ mode[s] = "established"
          /\ mode[Peer(s)] = "established" /\ paused[Peer(s)]
          /\ ~app[s].awaiting
          /\ Write(s, {TRUE}, {0, 2})
          /\ Ran("app", s)
       \/ s = "srv" /\ mode[s] = "established" /\ Pause(s) /\ Ran("app", s)
       \/ s = "srv" /\ Resume(s) /\ Ran("app", s)
  /\ UNCHANGED <<codecVars, streamVars>>

FairResume ==
  HandshakeInit /\ [][FairResumeNext]_vars /\ EventLoopFairness

\* Frames of every type sent to both ends of a handshake at any moment: "srv"
\* attaches and accepts or rejects the request, "cli" connects, and each step
\* records the turn it is.
SyncDecisions ==
  {[dec |-> "accept", reason |-> "undefined"],
   [dec |-> "reject", reason |-> "undefined"]}

FramesNext ==
  /\ \E s \in Sessions :
       \/ Attach(s, {"fn"}) /\ Ran("app", s)
       \/ Connect(s, {<<1, 2>>}, {"fn"}) /\ Ran("app", s)
       \/ ConnectReady(s) /\ Ran("ConnectReady", s)
       \/ Tick(s, SyncDecisions, {FALSE}) /\ Ran("Tick", s)
       \/ Deliver(s) /\ Ran("Deliver", s)
       \/ Drain(s) /\ Ran("Drain", s)
       \/ Inject(s, InjectFrames) /\ Ran("peer", s)
  /\ UNCHANGED <<codecVars, streamVars>>

SpecFrames == HandshakeInit /\ [][FramesNext]_vars

\* The handshake with applications that call end() and peers whose end of
\* stream arrives, with an event loop that runs: "srv" accepts or rejects
\* the request at once, and each step records the turn it is.
FairCloseNext ==
  /\ \E s \in Sessions :
       \/ Attach(s, {"fn"}) /\ Ran("app", s)
       \/ Connect(s, {<<1, 2>>}, {"fn"}) /\ Ran("app", s)
       \/ ConnectReady(s) /\ Ran("ConnectReady", s)
       \/ Tick(s, SyncDecisions, {FALSE}) /\ Ran("Tick", s)
       \/ Deliver(s) /\ Ran("Deliver", s)
       \/ Drain(s) /\ Ran("Drain", s)
       \/ End(s) /\ Ran("app", s)
       \/ PeerEnd(s) /\ Ran("PeerEnd", s)
  /\ UNCHANGED <<codecVars, streamVars>>

FairClose ==
  /\ HandshakeInit /\ [][FairCloseNext]_vars /\ EventLoopFairness
  /\ \A s \in Sessions : WF_turnVars(PeerEndEnabled(s) /\ Ran("PeerEnd", s))

\* Call requests with name records that decode or not, sent to the accepting
\* end, attached with or without a callback, at any moment; each step
\* records the turn it is.
NamesNext ==
  /\ \E s \in Sessions :
       \/ Attach(s, Callbacks) /\ Ran("app", s)
       \/ Connect(s, {<<1, 2>>}, {"fn"}) /\ Ran("app", s)
       \/ ConnectReady(s) /\ Ran("ConnectReady", s)
       \/ Tick(s, SyncDecisions, {FALSE}) /\ Ran("Tick", s)
       \/ Deliver(s) /\ Ran("Deliver", s)
       \/ Drain(s) /\ Ran("Drain", s)
       \/ s = "srv" /\ Inject(s, NameFrames) /\ Ran("peer", s)
  /\ UNCHANGED <<codecVars, streamVars>>

SpecNames == HandshakeInit /\ [][NamesNext]_vars

\* The handshake of sessions that are paused before they are Established,
\* by the constructor option or by pause(), with an event loop that runs:
\* "srv" accepts or rejects the request at once.
PausedOptions ==
  {o \in [Sessions -> Options] :
     \A s \in Sessions : ~o[s].direct /\ ~o[s].autoAccept}

PausedInit ==
  /\ \E o \in PausedOptions : SessInitWith(o)
  /\ codec = CodecIdle /\ sw = SwIdle /\ sr = SrIdle

FairPausedNext ==
  /\ \E s \in Sessions :
       \/ Attach(s, {"fn"}) /\ Ran("app", s)
       \/ Connect(s, {<<1, 2>>}, {"fn"}) /\ Ran("app", s)
       \/ ConnectReady(s) /\ Ran("ConnectReady", s)
       \/ Tick(s, SyncDecisions, {FALSE}) /\ Ran("Tick", s)
       \/ Deliver(s) /\ Ran("Deliver", s)
       \/ Drain(s) /\ Ran("Drain", s)
       \/ mode[s] # "established" /\ Pause(s) /\ Ran("app", s)
  /\ UNCHANGED <<codecVars, streamVars>>

FairPaused == PausedInit /\ [][FairPausedNext]_vars /\ EventLoopFairness

\* The handshake with applications that call attach() or connect() a second
\* time, at any moment: "srv" accepts the request at once or keeps it.
RebindNext ==
  /\ \E s \in Sessions :
       \/ Attach(s, {"fn"})
       \/ Connect(s, {<<1, 2>>}, {"fn"})
       \/ ConnectReady(s)
       \/ Tick(s, AcceptDecisions, {FALSE})
       \/ Deliver(s)
       \/ Drain(s)
       \/ AttachAgain(s, Callbacks)
       \/ ConnectAgain(s, {<<2, 1>>}, Callbacks)
  /\ UNCHANGED <<codecVars, streamVars, turnVars>>

SpecRebind == HandshakeInit /\ [][RebindNext]_vars

\* The handshake with applications that call end() once, at any moment, and
\* attach() or connect() again after the session has closed: "srv" accepts
\* or rejects the request at once.
ReopenNext ==
  /\ \E s \in Sessions :
       \/ Attach(s, {"fn"})
       \/ Connect(s, {<<1, 2>>}, {"fn"})
       \/ ConnectReady(s)
       \/ Tick(s, SyncDecisions, {FALSE})
       \/ Deliver(s)
       \/ Drain(s)
       \/ app[s].ends = 0 /\ End(s)
       \/ sockEnded[s] > 0 /\ AttachAgain(s, {"fn"})
       \/ sockEnded[s] > 0 /\ ConnectAgain(s, {<<2, 1>>}, {"fn"})
  /\ UNCHANGED <<codecVars, streamVars, turnVars>>

SpecReopen == HandshakeInit /\ [][ReopenNext]_vars

\* Writes of every kind on an Established pair: "srv" accepts at once, "cli"
\* writes messages with and without a callback while the transport flushes
\* both, one or none of the two writes of a message, and writes an over-long
\* message at any moment.
WriteNext ==
  /\ \E s \in Sessions :
       \/ Attach(s, {"fn"})
       \/ Connect(s, {<<1, 2>>}, {"fn"})
       \/ ConnectReady(s)
       \/ Tick(s, SyncAccept, {FALSE})
       \/ Deliver(s)
       \/ Drain(s)
       \/ s = "cli" /\ mode[s] = "established" /\ Write(s, BOOLEAN, {0, 1, 2})
       \/ s = "cli" /\ WriteLong(s, BOOLEAN, BOOLEAN)
  /\ UNCHANGED <<codecVars, streamVars, turnVars>>

SpecWrite == HandshakeInit /\ [][WriteNext]_vars

\* One write on each session while it has a transport bound and is not yet
\* Established: "srv" accepts the request at once or keeps it and accepts
\* later.
EarlyWriteNext ==
  /\ \E s \in Sessions :
       \/ Attach(s, {"fn"})
       \/ Connect(s, {<<1, 2>>}, {"fn"})
       \/ ConnectReady(s)
       \/ Tick(s, AcceptDecisions, {FALSE})
       \/ Deliver(s)
       \/ Drain(s)
       \/ Accept(s)
       \/ /\ mode[s] \in {"establishingIn", "establishingOut"}
          /\ app[s].sent = <<>>
          /\ Write(s, {TRUE}, {0, 2})
  /\ UNCHANGED <<codecVars, streamVars, turnVars>>

SpecEarlyWrite == HandshakeInit /\ [][EarlyWriteNext]_vars

\* Writes on an Established pair with an event loop that runs: "cli" writes
\* at any moment, also while an earlier write waits for 'drain'; each step
\* records the turn it is, and a write that returned false is a turn of its
\* own kind.
FairWriteNext ==
  /\ \E s \in Sessions :
       \/ Attach(s, {"fn"}) /\ Ran("app", s)
       \/ Connect(s, {<<1, 2>>}, {"fn"}) /\ Ran("app", s)
       \/ ConnectReady(s) /\ Ran("ConnectReady", s)
       \/ Tick(s, SyncAccept, {FALSE}) /\ Ran("Tick", s)
       \/ Deliver(s) /\ Ran("Deliver", s)
       \/ Drain(s) /\ Ran("Drain", s)
       \/ /\ s = "cli" /\ mode[s] = "established"
          /\ Write(s, BOOLEAN, {0, 1, 2})
          /\ IF app'[s].lastRet = "false"
             THEN Ran("write false", s)
             ELSE Ran("app", s)
  /\ UNCHANGED <<codecVars, streamVars>>

FairWrite == HandshakeInit /\ [][FairWriteNext]_vars /\ EventLoopFairness

\* The handshake of a session attached without a callback, constructed with
\* or without the autoAccept option.
PolicyOptions ==
  {o \in [Sessions -> Options] :
     /\ o["cli"] = NoOptions
     /\ ~o["srv"].direct /\ ~o["srv"].paused}

PolicyInit ==
  /\ \E o \in PolicyOptions : SessInitWith(o)
  /\ codec = CodecIdle /\ sw = SwIdle /\ sr = SrIdle

PolicyNext ==
  /\ \E s \in Sessions :
       \/ Attach(s, {"null"})
       \/ Connect(s, NamePairs, Callbacks)
       \/ ConnectReady(s)
       \/ Tick(s, AllDecisions, {FALSE})
       \/ Deliver(s)
       \/ Drain(s)
  /\ UNCHANGED <<codecVars, streamVars, turnVars>>

SpecPolicy == PolicyInit /\ [][PolicyNext]_vars

CodecNext ==
  (CodecPack \/ CodecRead) /\ UNCHANGED <<streamVars, sessVars, turnVars>>

CodecSpecInit == CodecInit /\ sw = SwIdle /\ sr = SrIdle /\ SessIdle

SpecCodec == CodecSpecInit /\ [][CodecNext]_vars

StreamNext ==
  (SwWrite \/ SwDrain) /\ UNCHANGED <<codecVars, sr, sessVars, turnVars>>

\* One chunk written through the stream version and read at the other end:
\* the writer starts once the reader has answered the call request.
ReassemblyInit == SwInit /\ sr = SrIdle /\ codec = CodecIdle /\ SessIdle

ReassemblyNext ==
  /\ \/ sr.mode = "established" /\ SwWrite /\ UNCHANGED sr
     \/ SwDrain /\ UNCHANGED sr
     \/ SrAttach /\ UNCHANGED sw
     \/ SrRead /\ UNCHANGED sw
     \/ SrDeliver /\ UNCHANGED sw
  /\ UNCHANGED <<codecVars, sessVars, turnVars>>

SpecReassembly == ReassemblyInit /\ [][ReassemblyNext]_vars

\* The same with a consumer that may call _read while a _read is pending.
ReadAgainNext ==
  /\ \/ sr.mode = "established" /\ SwWrite /\ UNCHANGED sr
     \/ SwDrain /\ UNCHANGED sr
     \/ SrAttach /\ UNCHANGED sw
     \/ SrRead /\ UNCHANGED sw
     \/ SrReadAgain /\ UNCHANGED sw
     \/ SrDeliver /\ UNCHANGED sw
  /\ UNCHANGED <<codecVars, sessVars, turnVars>>

SpecReadAgain == ReassemblyInit /\ [][ReadAgainNext]_vars

StreamSpecInit == SwInit /\ sr = SrIdle /\ codec = CodecIdle /\ SessIdle

SpecStreamWrite == StreamSpecInit /\ [][StreamNext]_vars

\* The stream version's writer on a transport that drains: a transport that
\* reported 'not flushed' emits 'drain'.
FairStreamWrite ==
  /\ StreamSpecInit /\ [][StreamNext]_vars
  /\ WF_vars(SwDrain /\ UNCHANGED <<codecVars, sr, sessVars, turnVars>>)

----------------------------------------------------------------------------
(* The claims.                                                             *)

\* the message frames on the transport: item 2i-1 is the header of frame i,
\* item 2i its trailer
swFrame(i) ==
  LET h == sw.sock[2 * i - 1]
      t == sw.sock[2 * i]
  IN [isHeader |-> h.hdr # <<>>,
      isSlice |-> t.hdr = <<>>,
      type |-> IF h.hdr # <<>> THEN headerType(h.hdr) ELSE "undefined",
      length |-> IF h.hdr # <<>> THEN headerLength(h.hdr) ELSE 0,
      lo |-> t.lo, hi |-> t.hi]

swFrameCount == Len(sw.sock) \div 2

RECURSIVE swSumLengths(_)
swSumLengths(n) == IF n = 0 THEN 0 ELSE swFrame(n).length + swSumLengths(n - 1)

\* C2: once the write of a chunk of N > MAX bytes has completed, the
\* transport holds exactly ceil(N/MAX) message frames, each header followed
\* by its own trailer; no trailer is longer than MAX, the trailer lengths sum
\* to N, and the trailers are the consecutive slices of the chunk from 0 to N.
C2_ChunkedFrames ==
  (sw.pc = "done" /\ sw.len > MAX_TRAILER_LENGTH) =>
    /\ Len(sw.sock) = 2 * swFrameCount
    /\ swFrameCount = (sw.len + MAX_TRAILER_LENGTH - 1) \div MAX_TRAILER_LENGTH
    /\ swSumLengths(swFrameCount) = sw.len
    /\ \A i \in 1 .. swFrameCount :
         LET f == swFrame(i)
         IN /\ f.isHeader /\ f.isSlice
            /\ f.type = "message"
            /\ f.length <= MAX_TRAILER_LENGTH
            /\ f.length = f.hi - f.lo
            /\ f.lo = (IF i = 1 THEN 0 ELSE swFrame(i - 1).hi)
            /\ (i = swFrameCount => f.hi = sw.len)

\* a chunk that needs three frames was written, with a wait for 'drain'
\* in between, and its callback was called
C2_Witness ==
  /\ sw.pc = "done"
  /\ sw.len > 2 * MAX_TRAILER_LENGTH
  /\ swFrameCount = 3
  /\ sw.drains >= 2
  /\ sw.cbCalls = 1

\* C1: the header packed for a type and a length decodes to that type and
\* that length
C1_RoundTrip ==
  codec.pc = "read" =>
    /\ codec.dtype = codec.type
    /\ codec.dlength = codec.length

\* a length that needs the extension bit went through pack and decode
C1_Witness ==
  /\ codec.pc = "read"
  /\ codec.length = EXTENSION_LENGTH
  /\ codec.buf[2] = FLAGS_E_MASK
  /\ codec.type = "keep alive"

----------------------------------------------------------------------------
(* The handshake claims. The accepting end is "srv", the connecting end     *)
(* "cli".                                                                   *)

\* the entries of a session's log that report one event
LogOf(s, ev) == SelectSeq(log[s], LAMBDA e : e.ev = ev)

\* the connecting end has read every byte the accepting end wrote, and its
\* application has not ended the session on its own
CliHasReadAll ==
  /\ wire["cli"] = <<>> /\ inbuf["cli"] = <<>>
  /\ app["cli"].ends = 0
  /\ ~Crashed("cli")

\* the connect callback was called once, with this error message ("" for
\* no error)
ConnectCbCalledWith(msg) ==
  /\ Len(LogOf("cli", "connectCb")) = 1
  /\ LogOf("cli", "connectCb")[1].err = msg

SyncAccepted(r) == r.dec = "accept" /\ r.done = "accept"

\* C3: when the attach callback accepts the request synchronously, the
\* session has written exactly the bytes 0x82 0 0 0 and is Established (until
\* its application ends it); once the connecting end has read these bytes it
\* is Established, and its connect callback was called once, without error.
C3_SyncAccept ==
  \A i \in 1 .. Len(requests["srv"]) :
    SyncAccepted(requests["srv"][i]) =>
      /\ out["srv"] = <<130, 0, 0, 0>>
      /\ LogOf("srv", "connect") # <<>>
      /\ LogOf("srv", "connect")[1].mode = "established"
      /\ (app["srv"].ends = 0 => mode["srv"] = "established")
      /\ CliHasReadAll =>
           /\ mode["cli"] = "established"
           /\ (app["cli"].ccb = "fn" => ConnectCbCalledWith(""))

\* both ends are Established after a synchronous accept, and the connect
\* callback has been told so
C3_Witness ==
  /\ \E i \in 1 .. Len(requests["srv"]) : SyncAccepted(requests["srv"][i])
  /\ mode["srv"] = "established" /\ mode["cli"] = "established"
  /\ app["cli"].ccb = "fn" /\ ConnectCbCalledWith("")

\* the code of a reason in the table of negative-response reasons
C4_TableCode(reason) ==
  CASE reason = "Not listening on called name" -> 128
    [] reason = "Not listening for calling name" -> 129
    [] reason = "Called name not present" -> 130
    [] reason = "Called name present, but insufficient resources" -> 131
    [] reason = "Unspecified error" -> 143

Rejected(r) == r.done = "reject"

\* C4: when a request is rejected with a reason of the table, the session
\* has written one negative-response frame with the one trailer byte that is
\* the reason's code; once the connecting end has read it, its connect
\* callback was called once, with the error message that names this reason.
C4_RejectReason ==
  \A i \in 1 .. Len(requests["srv"]) :
    LET r == requests["srv"][i]
    IN (Rejected(r) /\ r.reason \in ReasonStrings) =>
         /\ out["srv"] = <<131, 0, 0, 1, C4_TableCode(r.reason)>>
         /\ (CliHasReadAll /\ app["cli"].ccb = "fn") =>
              ConnectCbCalledWith("Connection failed with response code ["
                                  \o r.reason \o "]")

\* a rejection with a reason of the table, other than the fallback, has
\* reached the connect callback
C4_Witness ==
  /\ \E i \in 1 .. Len(requests["srv"]) :
       /\ Rejected(requests["srv"][i])
       /\ requests["srv"][i].reason = "Called name not present"
  /\ out["srv"] = <<131, 0, 0, 1, 130>>
  /\ ConnectCbCalledWith(
       "Connection failed with response code [Called name not present]")

\* C5: when a request is rejected with no reason, or with a string that is
\* not in the table, the trailer byte of the negative-response frame is 0x8f,
\* and the connect callback gets the error of 'Unspecified error'.
C5_RejectFallback ==
  \A i \in 1 .. Len(requests["srv"]) :
    LET r == requests["srv"][i]
    IN (Rejected(r) /\ r.reason \notin ReasonStrings) =>
         /\ out["srv"] = <<131, 0, 0, 1, 143>>
         /\ (CliHasReadAll /\ app["cli"].ccb = "fn") =>
              ConnectCbCalledWith(
                "Connection failed with response code [Unspecified error]")

\* a rejection without a reason has reached the connect callback
C5_Witness ==
  /\ \E i \in 1 .. Len(requests["srv"]) :
       /\ Rejected(requests["srv"][i])
       /\ requests["srv"][i].reason = "undefined"
  /\ ConnectCbCalledWith(
       "Connection failed with response code [Unspecified error]")

SomeRejected == \E i \in 1 .. Len(requests["srv"]) : Rejected(requests["srv"][i])

\* C6: after reject(), while the transport has not emitted 'drain' for a
\* write it did not flush, nothing but the application's own end() closes
\* the transport; once the frame is flushed or drained the transport is
\* closed; and in every run a rejecting session's transport is eventually
\* closed.
C6_RejectCloses ==
  /\ []((SomeRejected /\ sockFull["srv"] /\ app["srv"].ends = 0)
          => sockEnded["srv"] = 0)
  /\ []((SomeRejected /\ ~sockFull["srv"]) => sockEnded["srv"] >= 1)
  /\ (SomeRejected ~> sockEnded["srv"] >= 1)

\* the negative response was not flushed and the session waits for 'drain'
\* with its transport open
C6_Witness ==
  /\ SomeRejected
  /\ sockFull["srv"]
  /\ \E j \in 1 .. Len(drainL["srv"]) : drainL["srv"][j].k = "end"
  /\ sockEnded["srv"] = 0
  /\ socket["srv"] = "open"

----------------------------------------------------------------------------
(* The claims about messages, pause and resume. "cli" writes, "srv"         *)
(* receives.                                                                *)

\* the payloads of the 'message' events a session emitted, in order
Delivered(s) ==
  [i \in 1 .. Len(LogOf(s, "message")) |-> LogOf(s, "message")[i].data]

IsPrefix(a, b) == Len(a) <= Len(b) /\ a = SubSeq(b, 1, Len(a))

\* C7: no 'message' event is emitted while the session is paused by a
\* pause() that was called when it was Established.
C7_PauseStopsMessages ==
  \A i \in 1 .. Len(log["srv"]) :
    log["srv"][i].ev = "message" =>
      ~(log["srv"][i].paused /\ log["srv"][i].pauseSrc = "est")

\* C8: of the messages written while the session was paused, the session
\* emits no other, none twice and none out of order, and once it is resumed
\* each of them is eventually emitted (unless it is paused again).
C8_ResumeDelivers ==
  /\ [](IsPrefix(Delivered("srv"), app["cli"].sent))
  /\ \A i \in 1 .. MaxWrites :
       (Len(app["cli"].sent) >= i /\ mode["srv"] = "established"
          /\ ~paused["srv"])
         ~> (Len(Delivered("srv")) >= i \/ paused["srv"])

\* C9: a session constructed with paused: true emits no 'message' event
\* before resume() is called.
C9_CtorPausedSilent ==
  \A i \in 1 .. Len(log["srv"]) :
    log["srv"][i].ev = "message" => log["srv"][i].pauseSrc # "ctor"

\* C10: when every write is issued after the completion callback of the one
\* before it, and the receiving session was never paused, the i-th 'message'
\* event carries the bytes of the i-th write, and once the receiver has read
\* all the sender wrote there are as many events as writes.
C10_WritesAreMessages ==
  (app["cli"].seqOK /\ ~opts["srv"].paused /\ app["srv"].pauses = 0) =>
    /\ IsPrefix(Delivered("srv"), app["cli"].sent)
    /\ (/\ drainL["cli"] = <<>>
        /\ wire["srv"] = <<>> /\ inbuf["srv"] = <<>> /\ tickq["srv"] = <<>>
        /\ mode["srv"] = "established")
         => Len(Delivered("srv")) = Len(app["cli"].sent)

----------------------------------------------------------------------------
(* The claims about the stream version's reader.                           *)

\* the chunks passed to the read callbacks are consecutive slices of the
\* payload, from its first byte on
SrGotIsPrefix ==
  \A i \in 1 .. Len(sr.got) :
    sr.got[i].lo = (IF i = 1 THEN 0 ELSE sr.got[i - 1].hi)

\* the reader has read every byte of a completed write
SrReadAll ==
  /\ sw.pc = "done"
  /\ sr.item > Len(SrStream)

\* C11: for a payload longer than the maximum trailer length, the chunks
\* passed to the read callbacks are, in order, consecutive slices of the
\* payload starting at its first byte, and once the reader has read all of a
\* completed write they reach its last byte.
C11_Reassembled ==
  sw.len > MAX_TRAILER_LENGTH =>
    /\ SrGotIsPrefix
    /\ SrReadAll => (sr.got # <<>> /\ sr.got[Len(sr.got)].hi = sw.len)

----------------------------------------------------------------------------
(* The claims about frames that are not legal where they arrive.           *)

\* the turn that is starting is a read-pump step of session s
PumpTurn(s) ==
  /\ last'.k = "Tick" /\ last'.s = s
  /\ tickq[s] # <<>> /\ Head(tickq[s]).k = "doRead"

\* the step changes nothing the application or the peer can observe, and
\* nothing of the session's state besides the parser's
NoEffect(s) ==
  /\ log'[s] = log[s] /\ out'[s] = out[s]
  /\ wire'[Peer(s)] = wire[Peer(s)]
  /\ mode'[s] = mode[s] /\ socket'[s] = socket[s]
  /\ paused'[s] = paused[s] /\ requests'[s] = requests[s]
  /\ attachCallback'[s] = attachCallback[s]
  /\ connectCallback'[s] = connectCallback[s]
  /\ sockEnded'[s] = sockEnded[s] /\ drainL'[s] = drainL[s]

\* the input stream holds a whole header whose type is not legal in the
\* session's mode and the parser is at a header
IllegalHeader(s) ==
  /\ inputStream[s]
  /\ readFunc[s] = "readHeader"
  /\ Len(inbuf[s]) >= HEADER_LENGTH
  /\ ~VALID_TYPES(mode[s], headerType(SubSeq(inbuf[s], 1, HEADER_LENGTH)))

\* the parser is at the trailer of a frame it ignores, and the input stream
\* holds all of it
IgnoredTrailer(s) ==
  /\ readFunc[s] = "readTrailer"
  /\ trailerType[s] = "ignore"
  /\ Len(inbuf[s]) >= trailerLength[s]

\* C12: a read-pump step that parses the header of a frame whose type is
\* unknown or not legal in the session's mode removes the header, and the
\* trailer as soon as the input stream holds all of it, and leaves the parser
\* at the first byte after the trailer; it changes nothing else: no event, no
\* callback, no write to the transport, no change of state.
C12_IllegalConsumed ==
  [][\A s \in Sessions :
       /\ (PumpTurn(s) /\ IllegalHeader(s)) =>
            LET n == Len(inbuf[s])
                length == headerLength(SubSeq(inbuf[s], 1, HEADER_LENGTH))
            IN /\ NoEffect(s)
               /\ IF n - HEADER_LENGTH >= length
                  THEN /\ inbuf'[s] = SubSeq(inbuf[s], HEADER_LENGTH + length + 1, n)
                       /\ readFunc'[s] = "readHeader"
                       /\ trailerLength'[s] = 0
                  ELSE /\ inbuf'[s] = SubSeq(inbuf[s], HEADER_LENGTH + 1, n)
                       /\ readFunc'[s] = "readTrailer"
                       /\ trailerType'[s] = "ignore"
                       /\ trailerLength'[s] = length
       /\ (PumpTurn(s) /\ IgnoredTrailer(s)) =>
            /\ NoEffect(s)
            /\ inbuf'[s] = SubSeq(inbuf[s], trailerLength[s] + 1, Len(inbuf[s]))
            /\ readFunc'[s] = "readHeader"
            /\ trailerLength'[s] = 0]_vars

----------------------------------------------------------------------------
(* The claims about attach() and connect() on a session that is in use.    *)

\* the session has a transport bound or is not idle
Active(s) == mode[s] # "null" \/ socket[s] # "null"

ActiveErrors == {"Cannot attach Session already active.",
                 "Cannot connect Session already active."}

\* the step is a call of attach() or connect() by the application of s
BindCall(s) ==
  \/ app'[s].attaches # app[s].attaches
  \/ app'[s].connects # app[s].connects

\* the step runs a deferred callback of s that carries the refusal
RefusalRuns(s) ==
  /\ Len(tickq'[s]) < Len(tickq[s])
  /\ Head(tickq[s]).k = "cb"
  /\ Head(tickq[s]).err \in ActiveErrors

\* C13: attach() or connect() on a session that has a transport bound or is
\* not idle leaves the mode, the transport, the input stream, the registered
\* callbacks and the pending connections as they are, and defers a call of
\* the callback it was given with the 'already active' error of the operation;
\* when that deferred call runs, the callback receives that error.
C13_ActiveRefused ==
  [][\A s \in Sessions :
       /\ (Active(s) /\ BindCall(s)) =>
            /\ mode'[s] = mode[s] /\ socket'[s] = socket[s]
            /\ attachCallback'[s] = attachCallback[s]
            /\ connectCallback'[s] = connectCallback[s]
            /\ inputStream'[s] = inputStream[s] /\ inbuf'[s] = inbuf[s]
            /\ connq'[s] = connq[s] /\ readableL'[s] = readableL[s]
            /\ out'[s] = out[s] /\ log'[s] = log[s]
            /\ IF app'[s].cbArg = "fn"
               THEN \E item \in {TickItem("cb", "attachCb", "Cannot attach Session already active."),
                                  TickItem("cb", "connectCb", "Cannot connect Session already active.")} :
                      /\ tickq'[s] = Append(tickq[s], item)
                      /\ (item.ev = "attachCb") <=> (app'[s].attaches # app[s].attaches)
               ELSE tickq'[s] = tickq[s]
       /\ RefusalRuns(s) =>
            /\ Len(log'[s]) = Len(log[s]) + 1
            /\ log'[s][Len(log'[s])].ev = Head(tickq[s]).ev
            /\ log'[s][Len(log'[s])].err = Head(tickq[s]).err
            /\ mode'[s] = mode[s] /\ socket'[s] = socket[s]]_vars

\* both sessions are Established with their transports bound, and each has
\* been told of a refusal: "srv" of a connect(), "cli" of an attach()
C13_Witness ==
  /\ \A s \in Sessions : mode[s] = "established" /\ socket[s] = "open"
  /\ \E i \in 1 .. Len(log["srv"]) :
       /\ log["srv"][i].ev = "connectCb" /\ log["srv"][i].mode = "established"
       /\ log["srv"][i].err = "Cannot connect Session already active."
  /\ \E j \in 1 .. Len(log["cli"]) :
       /\ log["cli"][j].ev = "attachCb" /\ log["cli"][j].mode = "established"
       /\ log["cli"][j].err = "Cannot attach Session already active."

----------------------------------------------------------------------------
(* The claims about write().                                               *)

TooLong == "Message length exceeds maximum"

\* the step is a call of write() with an over-long msg by the application
LongWriteCall(s) == app'[s].longW # app[s].longW

\* the step runs the deferred callback of an over-long write
LongCallbackRuns(s) ==
  /\ Len(tickq'[s]) < Len(tickq[s])
  /\ Head(tickq[s]) = TickItem("cb", "writeCb", TooLong)

\* the callback of the write is called with the length error
CalledWithTooLong(s) ==
  /\ Len(log'[s]) = Len(log[s]) + 1
  /\ log'[s][Len(log'[s])].ev = "writeCb"
  /\ log'[s][Len(log'[s])].err = TooLong

\* the call hands nothing to the transport, the application sees an 'error'
\* event with the length error, and the callback it gave, if any, is deferred
\* with that error
RefusedByEvent(s) ==
  /\ out'[s] = out[s] /\ wire'[Peer(s)] = wire[Peer(s)]
  /\ log'[s] = Append(log[s], Ev(World, s, "error", <<>>, TooLong))
  /\ tickq'[s] = IF app'[s].cbArg = "fn"
                 THEN Append(tickq[s], TickItem("cb", "writeCb", TooLong))
                 ELSE tickq[s]

\* the call hands nothing to the transport and throws the length error; no
\* callback is deferred
RefusedByThrow(s) ==
  /\ out'[s] = out[s] /\ wire'[Peer(s)] = wire[Peer(s)]
  /\ log'[s] = Append(log[s], Ev(World, s, "throw", <<>>, TooLong))
  /\ tickq'[s] = tickq[s]
  /\ app'[s].lastRet = "threw"

WriteCall(s) == Len(app'[s].sent) > Len(app[s].sent)

\* the call of write() of this step returned true
ReturnedTrue(s) ==
  /\ WriteCall(s) \/ LongWriteCall(s)
  /\ app'[s].lastRet = "true"
  /\ log'[s] = <<>> \/ log'[s][Len(log'[s])].ev # "throw"

\* the message of the call, as the code frames it
FrameOfCall(s) ==
  LET d == app'[s].sent[Len(app'[s].sent)]
  IN packHeader("message", Len(d)) \o d

\* C15: a call of write() returns true only if it handed the header and the
\* payload of its message to the transport and the transport reported both
\* flushed; a call with an over-long msg, which hands the transport nothing,
\* does not return true.
C15_TrueMeansFlushed ==
  [][\A s \in Sessions :
       ReturnedTrue(s) =>
         /\ WriteCall(s)
         /\ out'[s] = out[s] \o FrameOfCall(s)
         /\ ~sockFull'[s]]_vars

\* how many 'drain' events the application of s has seen
DrainCount(s) == Len(LogOf(s, "drain"))

\* C16: whenever a call of write() has just returned false, the session
\* later emits a 'drain' event, the transport emitting 'drain' whenever it
\* reported a write as not flushed.
C16_FalseThenDrain ==
  \A s \in Sessions : \A n \in 0 .. MaxWrites :
    (last.k = "write false" /\ last.s = s /\ DrainCount(s) = n)
      ~> (DrainCount(s) > n)

\* both writes returned false, the application has seen a 'drain' event
\* after each, and the transport has no write left to flush
C16_Witness ==
  /\ Len(app["cli"].sent) = 2
  /\ app["cli"].lastRet = "false"
  /\ DrainCount("cli") = 2
  /\ ~sockFull["cli"] /\ drainL["cli"] = <<>>

----------------------------------------------------------------------------
(* The claims about the accepting end's decision.                          *)

\* C17: a session attached without a callback answers a valid call request
\* by its option: constructed with autoAccept it writes a positive response
\* and is Established; constructed without, it writes a negative response,
\* never becomes Established, and has closed its transport once the response
\* is flushed.
C17_DefaultPolicy ==
  (attachCallback["srv"] = "null" /\ out["srv"] # <<>>) =>
    IF opts["srv"].autoAccept
    THEN /\ out["srv"] = packHeader("positive response", 0)
         /\ mode["srv"] = "established"
    ELSE /\ headerType(out["srv"]) = "negative response"
         /\ mode["srv"] # "established"
         /\ (~sockFull["srv"]) => sockEnded["srv"] = 1

\* how many frames a sequence of bytes written by a session holds
RECURSIVE CountFrames(_)
CountFrames(bytes) ==
  IF Len(bytes) < HEADER_LENGTH
  THEN 0
  ELSE LET n == HEADER_LENGTH + headerLength(SubSeq(bytes, 1, HEADER_LENGTH))
       IN 1 + CountFrames(SubSeq(bytes, n + 1, Len(bytes)))

\* the request objects one of whose actions has run
Used(s) == {i \in 1 .. Len(requests[s]) : requests[s][i].done # "none"}

\* C18: of a request object given to the attach callback, once accept() or
\* reject() has run both are cleared, so that neither can be called again;
\* a session attached with a callback has written at most one handshake
\* response frame per request object one of whose actions has run.
C18_OneResponsePerRequest ==
  \A s \in Sessions :
    /\ \A i \in Used(s) : ~requests[s][i].live
    /\ attachCallback[s] = "fn" => CountFrames(out[s]) <= Cardinality(Used(s))

\* the attach callback kept the request, the application rejected it later,
\* and the session has written the one negative response
C18_Witness ==
  /\ Len(requests["srv"]) = 1
  /\ requests["srv"][1].dec = "defer"
  /\ requests["srv"][1].done = "reject"
  /\ ~requests["srv"][1].live
  /\ CountFrames(out["srv"]) = 1
  /\ headerType(out["srv"]) = "negative response"

----------------------------------------------------------------------------
(* The claims about direct mode.                                           *)

\* every frame of a sequence of bytes written by a session is a message; the
\* payload of the last one may still wait for the transport
RECURSIVE OnlyMessageFrames(_)
OnlyMessageFrames(bytes) ==
  \/ bytes = <<>>
  \/ /\ Len(bytes) >= HEADER_LENGTH
     /\ headerType(SubSeq(bytes, 1, HEADER_LENGTH)) = "message"
     /\ LET n == HEADER_LENGTH + headerLength(SubSeq(bytes, 1, HEADER_LENGTH))
        IN \/ Len(bytes) = HEADER_LENGTH
           \/ n <= Len(bytes) /\ OnlyMessageFrames(SubSeq(bytes, n + 1, Len(bytes)))

\* the session has read and parsed all that its peer wrote
ReadAll(s) ==
  /\ drainL[Peer(s)] = <<>>
  /\ wire[s] = <<>> /\ inbuf[s] = <<>> /\ tickq[s] = <<>>

\* C19: a session in direct mode is Established as soon as its transport is
\* bound and has then emitted 'connect' once; it has no other mode, writes
\* nothing but message frames (the frames of writes that do not overlap),
\* and is never given a request; the frames it
\* receives are dispatched as messages from the first one on: its 'message'
\* events carry the peer's writes in order, and all of them once it has read
\* all the peer wrote (the peer writing each message after the callback of
\* the one before).
C19_DirectEstablished ==
  \A s \in Sessions :
    opts[s].direct =>
      /\ mode[s] = (IF inputStream[s] THEN "established" ELSE "null")
      /\ Len(LogOf(s, "connect")) = (IF inputStream[s] THEN 1 ELSE 0)
      /\ app[s].seqOK => OnlyMessageFrames(out[s])
      /\ LogOf(s, "attachCb") = <<>> /\ requests[s] = <<>>
      /\ app[Peer(s)].seqOK =>
           /\ IsPrefix(Delivered(s), app[Peer(s)].sent)
           /\ ReadAll(s) => Len(Delivered(s)) = Len(app[Peer(s)].sent)

----------------------------------------------------------------------------
(* The claims about a rejected request.                                    *)

----------------------------------------------------------------------------
(* The claims about connect().                                             *)

\* C21: whenever the connect callback is called without an error, the
\* session's mode is Established at that moment, with and without the direct
\* option.
C21_CallbackWhenEstablished ==
  \A s \in Sessions :
    \A i \in 1 .. Len(log[s]) :
      (log[s][i].ev = "connectCb" /\ log[s][i].err = "") =>
        log[s][i].mode = "established"

\* the third and the fourth argument of the application's connect() call:
\* the documented signature is connect(port, host, callTo, callFrom, callback)
DocCallTo(s) == app[s].cargs[1]

DocCallFrom(s) == app[s].cargs[2]

\* C22: the call request the connecting end writes carries the record of the
\* documented callTo argument first and of the documented callFrom argument
\* second, and the request the accepting end presents has the same callTo
\* and callFrom.
C22_NamesInOrder ==
  \A s \in Sessions :
    /\ Len(out[s]) >= HEADER_LENGTH + 2 /\ app[s].connects > 0 =>
         SubSeq(out[s], 1, HEADER_LENGTH + 2) =
           packHeader("request", 2) \o <<DocCallTo(s), DocCallFrom(s)>>
    /\ \A i \in 1 .. Len(requests[s]) :
         /\ requests[s][i].callTo = DocCallTo(Peer(s))
         /\ requests[s][i].callFrom = DocCallFrom(Peer(s))

----------------------------------------------------------------------------
(* The claims about a request the attach callback keeps.                   *)

\* the attach callback of s was given a request, and neither accept() nor
\* reject() of a request has been called, nor end()
Pending(s) ==
  /\ requests[s] # <<>>
  /\ \A i \in 1 .. Len(requests[s]) : requests[s][i].done = "none"
  /\ app[s].ends = 0

\* C23: while the decision on a request is pending the session is in
\* EstablishingIn and has written no response frame, whatever else happens.
C23_PendingStays ==
  \A s \in Sessions :
    Pending(s) => mode[s] = "establishingIn" /\ out[s] = <<>>

\* the decision is pending and nothing is left to run: no deferred function,
\* no byte in flight, and the read pump waits for 'readable'
C23_Witness ==
  /\ Pending("srv")
  /\ tickq["srv"] = <<>> /\ wire["srv"] = <<>> /\ readableL["srv"] = 1
  /\ tickq["cli"] = <<>> /\ wire["cli"] = <<>>
  /\ mode["cli"] = "establishingOut"

----------------------------------------------------------------------------
(* The claims about the bytes of overlapping writes.                       *)

\* the message frames of a sequence of payloads, one after the other
RECURSIVE FramesOf(_)
FramesOf(ds) ==
  IF ds = <<>>
  THEN <<>>
  ELSE packHeader("message", Len(Head(ds))) \o Head(ds) \o FramesOf(Tail(ds))

\* what the connecting end handed to its transport after the call request
AfterRequest(s) == SubSeq(out[s], HEADER_LENGTH + 3, Len(out[s]))

\* C24: the bytes a session hands to its transport for its write() calls are
\* the frames of the payloads in the order of the calls, each header followed
\* by its own payload, also when a write is issued while an earlier one
\* waits for 'drain'.
C24_FramesNotInterleaved ==
  IsPrefix(AfterRequest("cli"), FramesOf(app["cli"].sent))

----------------------------------------------------------------------------
(* The claims about the stream version's write callback.                   *)

\* the transport holds the header and the trailer of every frame of the
\* chunk and has accepted them all
SwAllAccepted ==
  /\ ~sw.full
  /\ swFrameCount >= 1 /\ Len(sw.sock) = 2 * swFrameCount
  /\ swSumLengths(swFrameCount) = sw.len
  /\ swFrame(swFrameCount).hi = sw.len

\* C25: the callback of a _write is called at most once and only when the
\* header and the trailer of every frame of the chunk have been accepted by
\* the transport; and a _write that was started has its callback called.
C25_CallbackOnceAfterAll ==
  /\ [](sw.cbCalls <= 1 /\ (sw.cbCalls = 1 => SwAllAccepted))
  /\ (sw.pc = "writing") ~> (sw.cbCalls = 1)

\* the callback of a chunk of two frames was called after the transport made
\* the writer wait for 'drain' after every write
C25_Witness ==
  /\ sw.cbCalls = 1
  /\ swFrameCount = 2
  /\ sw.drains = 4

----------------------------------------------------------------------------
(* The claims about a malformed negative response.                         *)

\* the read-pump step that is starting reads, in EstablishingOut, the last
\* byte of a negative-response frame whose trailer is not 1 byte long
MalformedNegative(s) ==
  /\ mode[s] = "establishingOut"
  /\ \/ /\ readFunc[s] = "readHeader"
        /\ Len(inbuf[s]) >= HEADER_LENGTH
        /\ LET h == SubSeq(inbuf[s], 1, HEADER_LENGTH)
           IN /\ headerType(h) = "negative response"
              /\ headerLength(h) # 1
              /\ Len(inbuf[s]) >= HEADER_LENGTH + headerLength(h)
     \/ /\ readFunc[s] = "readTrailer"
        /\ trailerType[s] = "negative response"
        /\ trailerLength[s] # 1
        /\ Len(inbuf[s]) >= trailerLength[s]

\* C26: a read-pump step that reads, in EstablishingOut, a negative-response
\* frame whose trailer length is not 1 closes the transport, and calls the
\* connect callback, when there is one, with 'Malformed negative response'.
C26_MalformedFails ==
  [][\A s \in Sessions :
       (PumpTurn(s) /\ MalformedNegative(s)) =>
         /\ mode'[s] = "null" /\ socket'[s] = "null"
         /\ sockEnded'[s] = sockEnded[s] + 1
         /\ connectCallback[s] = "fn" =>
              /\ Len(log'[s]) = Len(log[s]) + 1
              /\ log'[s][Len(log'[s])].ev = "connectCb"
              /\ log'[s][Len(log'[s])].err = "Malformed negative response"]_vars

----------------------------------------------------------------------------
(* The claims about a call request whose names do not decode.              *)

\* the trailer of the call request the read-pump step of s that is starting
\* hands to _handleRequest, or the empty sequence when it hands none
RequestTrailer(s) ==
  IF readFunc[s] = "readTrailer"
  THEN IF trailerType[s] = "request" /\ Len(inbuf[s]) >= trailerLength[s]
       THEN SubSeq(inbuf[s], 1, trailerLength[s])
       ELSE <<>>
  ELSE IF Len(inbuf[s]) >= HEADER_LENGTH
       THEN LET h == SubSeq(inbuf[s], 1, HEADER_LENGTH)
                n == headerLength(h)
            IN IF /\ headerType(h) = "request" /\ mode[s] = "establishingIn"
                  /\ Len(inbuf[s]) >= HEADER_LENGTH + n
               THEN SubSeq(inbuf[s], HEADER_LENGTH + 1, HEADER_LENGTH + n)
               ELSE <<>>
       ELSE <<>>

\* the called name or the calling name of the trailer does not decode
NameFails(chunk) ==
  \/ fromBuffer(chunk, 0).error
  \/ fromBuffer(chunk, fromBuffer(chunk, 0).bytesRead).error

\* C27: a read-pump step that hands _handleRequest a trailer one of whose
\* name records does not decode calls the attach callback exactly once, with
\* the error, presents no request, writes nothing and leaves the session in
\* EstablishingIn.
C27_NameErrorStops ==
  [][\A s \in Sessions :
       (/\ PumpTurn(s) /\ attachCallback[s] = "fn"
        /\ mode[s] = "establishingIn"
        /\ RequestTrailer(s) # <<>> /\ NameFails(RequestTrailer(s))) =>
         /\ Len(log'[s]) = Len(log[s]) + 1
         /\ log'[s][Len(log'[s])].ev = "attachCb"
         /\ log'[s][Len(log'[s])].err = "name error"
         /\ requests'[s] = requests[s]
         /\ out'[s] = out[s]
         /\ mode'[s] = "establishingIn"]_vars

----------------------------------------------------------------------------
(* The claims about a pause before the session is Established.             *)

\* session s was paused when the application was told ev
ToldWhilePaused(s, ev) ==
  \E i \in 1 .. Len(log[s]) : log[s][i].ev = ev /\ log[s][i].paused

\* C28: once the accepting end is in EstablishingIn, paused or not, the
\* call request is presented to its attach callback, and the response,
\* positive or negative, completes the connect of the other end, paused or
\* not.
C28_PausedHandshakeFinishes ==
  /\ (mode["srv"] = "establishingIn") ~> (LogOf("srv", "attachCb") # <<>>)
  /\ (mode["srv"] = "establishingIn") ~> (LogOf("cli", "connectCb") # <<>>)

\* both ends were paused when the handshake reached them: the attach
\* callback and the connect callback were called on paused sessions
C28_Witness ==
  /\ ToldWhilePaused("srv", "attachCb")
  /\ ToldWhilePaused("cli", "connectCb")

----------------------------------------------------------------------------
(* The claims about a session that was closed.                             *)

\* the session has called end() on a transport: by the application's end(),
\* after a rejection, or on a negative response
Closed(s) == sockEnded[s] > 0

\* C29: a session that was closed stays idle with no transport, and an
\* attach() or connect() on it binds nothing, opens no connection and defers
\* a call of the callback it was given with an error.
C29_ClosedIsTerminal ==
  [][\A s \in Sessions :
       Closed(s) =>
         /\ mode'[s] = "null" /\ socket'[s] = "null"
         /\ connq'[s] = connq[s]
         /\ (BindCall(s) /\ app'[s].cbArg = "fn") =>
              /\ Len(tickq'[s]) = Len(tickq[s]) + 1
              /\ tickq'[s][Len(tickq'[s])].k = "cb"
              /\ tickq'[s][Len(tickq'[s])].err \in ActiveErrors]_vars

\* C30: a read-pump step of a session that was closed parses nothing and
\* tells the application nothing: the buffered bytes and the parser's state
\* stay as they are, no event is emitted, no callback is called and nothing
\* is thrown.
C30_NoParseAfterEnd ==
  [][\A s \in Sessions :
       (Closed(s) /\ PumpTurn(s)) =>
         /\ inbuf'[s] = inbuf[s]
         /\ readFunc'[s] = readFunc[s]
         /\ trailerType'[s] = trailerType[s]
         /\ trailerLength'[s] = trailerLength[s]
         /\ log'[s] = log[s]
         /\ requests'[s] = requests[s]]_vars

\* C31: a session calls end() of its transport at most once; it has done so
\* once the application has called end(), it does so after it rejected a
\* request, and it does so after the peer's end of stream reached it.
C31_ClosedExactlyOnce ==
  /\ [](\A s \in Sessions :
          /\ sockEnded[s] <= 1
          /\ app[s].ends > 0 => sockEnded[s] = 1)
  /\ \A s \in Sessions :
       /\ (\E i \in 1 .. Len(requests[s]) : Rejected(requests[s][i]))
            ~> (sockEnded[s] = 1)
       /\ (LogOf(s, "end") # <<>>) ~> (sockEnded[s] = 1)

----------------------------------------------------------------------------
(* The claims about the stream version's read requests.                    *)

\* the step is a call of _read by the consumer of the stream
SrReadCall == sr'.reads # sr.reads

\* C32: a _read called while the callback of an earlier _read is registered
\* throws and changes nothing: the registered callback, the parser and the
\* 'readable' listeners stay as they are.
C32_SecondReadRefused ==
  [][(SrReadCall /\ sr.readCallback) =>
       sr' = [sr EXCEPT !.ex = TRUE, !.reads = @ + 1]]_vars

\* a second _read was refused on an Established session that had passed a
\* message to the first and had the next _read pending
C32_Witness ==
  /\ sr.ex /\ sr.readCallback
  /\ sr.mode = "established"
  /\ Len(sr.got) >= 1

\* C33: the read pump reads no message trailer while no _read is pending:
\* no message frame is dropped, and the chunks passed to the read callbacks
\* are the message frames received, each once and in order.
C33_NoTrailerDropped ==
  /\ sr.dropped = <<>>
  /\ SrGotIsPrefix

----------------------------------------------------------------------------
(* The claims about a message frame without trailer.                       *)

\* the input stream of the Established session s holds the header of a
\* message frame of length 0 and the parser is at a header
EmptyMessageHeader(s) ==
  /\ mode[s] = "established"
  /\ readFunc[s] = "readHeader"
  /\ Len(inbuf[s]) >= HEADER_LENGTH
  /\ headerType(SubSeq(inbuf[s], 1, HEADER_LENGTH)) = "message"
  /\ headerLength(SubSeq(inbuf[s], 1, HEADER_LENGTH)) = 0

\* C34: a read-pump step of an Established session that reads the header of
\* a message frame of length 0 emits 'message' with an empty payload.
C34_EmptyMessageDispatched ==
  [][\A s \in Sessions :
       (PumpTurn(s) /\ EmptyMessageHeader(s)) =>
         /\ Len(log'[s]) = Len(log[s]) + 1
         /\ log'[s][Len(log'[s])].ev = "message"
         /\ log'[s][Len(log'[s])].data = <<>>]_vars

----------------------------------------------------------------------------
(* The claims about a connect() that waits for its transport.              *)

\* a connect() of s has created a transport that is not ready yet
Connecting(s) == connq[s] # <<>>

\* C35: attach() or connect() on a session whose earlier connect() waits for
\* its transport creates and binds no transport and defers a call of the
\* callback it was given with the 'already active' error.
C35_ConnectingRefused ==
  [][\A s \in Sessions :
       (Connecting(s) /\ BindCall(s)) =>
         /\ connq'[s] = connq[s]
         /\ socket'[s] = socket[s] /\ mode'[s] = mode[s]
         /\ app'[s].cbArg = "fn" =>
              /\ Len(tickq'[s]) = Len(tickq[s]) + 1
              /\ tickq'[s][Len(tickq'[s])].err \in ActiveErrors]_vars

----------------------------------------------------------------------------
(* The claims about the read pump's continuations.                         *)

\* C36: a session has at most one read-pump continuation outstanding: one
\* deferred pump step or one once('readable') listener.
C36_OnePump == \A s \in Sessions : PumpCount(s) <= 1

----------------------------------------------------------------------------
(* The claims about the connect callback.                                  *)

\* C37: the callback of a connect() call is called at most once, whatever
\* frames the peer sends.
C37_ConnectCallbackOnce ==
  \A s \in Sessions : Len(LogOf(s, "connectCb")) <= 1

\* the connecting end was told of a failure by a negative response the
\* peer's transport end sent by itself, and has since read the positive
\* response of the accepting end
C37_Witness ==
  /\ app["cli"].injected = 1
  /\ Len(LogOf("cli", "connectCb")) = 1
  /\ LogOf("cli", "connectCb")[1].err # ""
  /\ out["srv"] = packHeader("positive response", 0)
  /\ wire["cli"] = <<>> /\ inbuf["cli"] = <<>>

----------------------------------------------------------------------------
(* The claims about the transport of an Established session.               *)

\* C38: an Established session has a transport bound.
C38_EstablishedHasTransport ==
  \A s \in Sessions : mode[s] = "established" => socket[s] = "open"

----------------------------------------------------------------------------
(* The claims about more than one call request.                            *)

\* C39: a session that was attached writes at most one handshake response
\* frame, however many call requests its peer sends.
C39_OneResponse ==
  \A s \in Sessions :
    app[s].attaches > 0 => CountFrames(out[s]) <= 1

----------------------------------------------------------------------------
(* The claims about a write before the session is Established.             *)

\* C40: a write() on a session that has a transport bound and is not
\* Established hands nothing to the transport.
C40_NoMessageBeforeEstablished ==
  [][\A s \in Sessions :
       (WriteCall(s) /\ mode[s] \in {"establishingIn", "establishingOut"}) =>
         out'[s] = out[s]]_vars

====
